---------------------------- MODULE Spec2Model ----------------------------
(***************************************************************************)
(* Name resolution and overload filtering of ada/language/ast.py.          *)
(*                                                                         *)
(* The module holds several specifications over one set of variables:      *)
(*   SpecMatch    the overload matcher (SubprogramSpec.match_param_list,   *)
(*                is_matching_param_list) applied to a bounded set of      *)
(*                subprogram specifications and actual parameter lists;    *)
(*   SpecCallHead BaseId.parent_callexpr applied to every identifier of    *)
(*                every name/call expression tree of bounded size;         *)
(*   SpecFilter   the filter of BaseId.env_elements applied to lists of    *)
(*                entities, for every identifier of a statement;           *)
(*   Spec         the environment build pass over a program of packages    *)
(*                and subprograms, then the candidates of its identifiers; *)
(*   SpecDefEnv   the build pass over a program of types, then the         *)
(*                evaluation of defining_env and designated_env;           *)
(*                FairSpecDefEnv adds that an evaluation is not left       *)
(*                pending;                                                 *)
(*   SpecEnv      the operations of the lexical environments: new          *)
(*                environments, registrations, and lookups in an           *)
(*                environment, an orphan or a group;                       *)
(*   SpecUnits    the build pass over compilation units whose names are    *)
(*                dotted (child units);                                    *)
(*   SpecChain    the build pass over a program of nested packages, then   *)
(*                env_elements and designated_env of its dotted names;     *)
(*   SpecDecls    the build pass over declarations that list several       *)
(*                identifiers and over type declarations;                  *)
(*   SpecNdims    the build pass over a package of types and objects,      *)
(*                then array_ndims and is_array of its nodes;              *)
(*   SpecAssoc    SubprogramSpec.match_param_assoc applied to the          *)
(*                associations of SpecMatch's inputs;                      *)
(*   SpecQualified the build pass over a unit of a record type, types      *)
(*                derived from it and a package, then env_elements of a    *)
(*                dotted name on each of them.                             *)
(* Variables a specification does not use keep their initial value.        *)
(***************************************************************************)
EXTENDS Integers, Sequences, FiniteSets, TLC

VARIABLES
    subp_params,   \* SubprogramSpec.params: the list of ParameterProfile
    call_params,   \* ParamList.params: the list of ParamAssoc
    match_list,    \* last value returned by match_param_list ("none" before)
    accepted,      \* last value returned by is_matching_param_list
    pc,            \* which operation has run
    tree,          \* the node graph: node id -> node (immutable once parsed)
    query,         \* what the last query was issued on: a node, an index
                   \* of call_params, or an environment and symbol (0: none)
    result,        \* the value the last query returned
    envs,          \* the lexical environments: env id -> [parent, map]
    node_env,      \* node id -> id of the environment the node lives in
    built,         \* number of nodes the environment builder has visited
    memo,          \* declaration -> its memoised defining_env, or a marker
    stack,         \* the defining_env evaluations in progress, innermost last
    job            \* the query being evaluated (NoJob when idle)

vars == <<subp_params, call_params, match_list, accepted, pc,
          tree, query, result, envs, node_env, built, memo, stack, job>>

matchVars == <<subp_params, call_params, match_list, accepted>>
envVars == <<envs, node_env, built>>
evalVars == <<memo, stack, job>>

\* a query under evaluation: the property, the node it is called on, the
\* elements it has still to go through and the value gathered so far
Job(op, node, items, acc) ==
    [op |-> op, node |-> node, items |-> items, acc |-> acc]
NoJob == Job("none", 0, <<>>, <<>>)

\* the value the variables of the resolver have where it is not run
NoResolver ==
    /\ envs = <<>> /\ node_env = <<>> /\ built = 0
    /\ memo = <<>> /\ stack = <<>> /\ job = NoJob

(***************************************************************************)
(* Bounds of the model.                                                    *)
(***************************************************************************)
MaxFormals == 3
MaxActuals == 3
MaxNodes == 12

\* Symbols (token texts after canonicalisation), in a fixed order.
SymbolOrder == <<"x", "y", "z">>
Symbols == {SymbolOrder[i] : i \in 1..Len(SymbolOrder)}

(***************************************************************************)
(* Generic helpers for the sequence combinators of the property DSL.       *)
(***************************************************************************)
\* the element of the singleton S; Only({F(v) : v \in {e}}) is F applied
\* to the value of e, e being evaluated once
Only(S) == CHOOSE r \in S : TRUE

RECURSIVE SeqFilterIdx(_, _, _)
\* the indices i >= from of s, in order, whose element is in the set keep
SeqFilterIdx(s, keep, from) ==
    IF from > Len(s) THEN <<>>
    ELSE (IF s[from] \in keep THEN <<from>> ELSE <<>>)
         \o SeqFilterIdx(s, keep, from + 1)

\* s.filter(pred), pred given as the set of elements that pass
SeqFilter(s, keep) ==
    Only({Only({[k \in 1..Len(idx) |-> v[idx[k]]] :
                   idx \in {SeqFilterIdx(v, keep, 1)}}) : v \in {s}})

\* number of indices of s whose element satisfies the predicate set
CountIn(s, keep) == Cardinality({i \in 1..Len(s) : s[i] \in keep})

(***************************************************************************)
(* ParameterProfile (ast.py 518-526): ids is the list of defining          *)
(* identifiers (their symbols), default is "null" or "expr".               *)
(***************************************************************************)
ParameterProfile(ids, default) == [ids |-> ids, default |-> default]

\* ParameterProfile.is_mandatory: Self.default.is_null
is_mandatory(profile) == profile.default = "null"

(***************************************************************************)
(* ParamAssoc.designator (ast.py 931-933): null, an Identifier, or a node  *)
(* of another kind (a StringLiteral is a BaseId but not an Identifier).    *)
(***************************************************************************)
NoDesignator == [kind |-> "null", tok |-> "none"]
Designators ==
    {NoDesignator}
    \cup {[kind |-> "Identifier", tok |-> s] : s \in Symbols}
    \cup {[kind |-> "StringLiteral", tok |-> SymbolOrder[1]]}

\* SingleTokNode.matches: Self.name.symbol == other.name.symbol
matches(a_tok, b_tok) == a_tok = b_tok

(***************************************************************************)
(* SubprogramSpec.typed_param_list: params.mapcat(profile ->                *)
(* profile.ids.map(id -> SingleParameter(name=id, profile=profile)))       *)
(***************************************************************************)
RECURSIVE typed_param_list(_)
typed_param_list(params) ==
    IF params = <<>> THEN <<>>
    ELSE LET profile == Head(params)
         IN  [k \in 1..Len(profile.ids) |->
                 [name |-> profile.ids[k], profile |-> profile]]
             \o typed_param_list(Tail(params))

\* nb_min_params without its is_mandatory filter
nb_min_params_unfiltered(params) == Len(typed_param_list(params))

\* SubprogramSpec.nb_min_params
nb_min_params(params) ==
    LET tpl == typed_param_list(params)
    IN  Len(SeqFilter(tpl, {p \in {tpl[i] : i \in 1..Len(tpl)} :
                              is_mandatory(p.profile)}))

\* SubprogramSpec.nb_max_params
nb_max_params(params) == Len(typed_param_list(params))

(***************************************************************************)
(* SubprogramSpec.match_param_list                                         *)
(***************************************************************************)
ParamMatch(has_matched, is_formal_opt) ==
    [has_matched |-> has_matched, is_formal_opt |-> is_formal_opt]

no_match == ParamMatch(FALSE, FALSE)

\* typed_params.find(lambda p: p.name.matches(id)): index of the first
\* formal named tok, 0 when there is none
FindFormal(typed_params, tok) ==
    LET hits == {k \in 1..Len(typed_params) : matches(typed_params[k].name, tok)}
    IN  IF hits = {} THEN 0 ELSE CHOOSE k \in hits : \A j \in hits : k <= j

\* matched_formal without the cast of the designator to Identifier
matched_formal_uncast(typed_params, i, pa) ==
    IF pa.designator = NoDesignator
    THEN IF i <= Len(typed_params) THEN i ELSE 0
    ELSE FindFormal(typed_params, pa.designator.tok)

\* The formal (index into typed_params, 0 for none) that match_param_list
\* pairs with the i-th ParamAssoc pa.
matched_formal(typed_params, i, pa) ==
    IF pa.designator = NoDesignator
    THEN \* positional: typed_params.at(i), null when out of range
         IF i <= Len(typed_params) THEN i ELSE 0
    ELSE \* named: pa.designator.cast(Identifier), then typed_params.find
         IF pa.designator.kind = "Identifier"
         THEN FindFormal(typed_params, pa.designator.tok)
         ELSE 0

match_param_list(params, actuals) ==
    LET typed_params == typed_param_list(params)
    IN  [i \in 1..Len(actuals) |->
            LET k == matched_formal(typed_params, i, actuals[i])
            IN  IF k # 0
                THEN ParamMatch(TRUE, typed_params[k].profile.default # "null")
                ELSE no_match]

(***************************************************************************)
(* SubprogramSpec.is_matching_param_list                                   *)
(***************************************************************************)
\* is_matching_param_list without the count of matched mandatory formals
is_matching_param_list_nocount(params, actuals) ==
    LET ml == match_param_list(params, actuals)
    IN  /\ Len(actuals) <= nb_max_params(params)
        /\ \A i \in 1..Len(ml) : ml[i].has_matched

is_matching_param_list(params, actuals) ==
    LET ml == match_param_list(params, actuals)
    IN  /\ Len(actuals) <= nb_max_params(params)
        /\ \A i \in 1..Len(ml) : ml[i].has_matched
        /\ Len(SeqFilter(ml, {m \in {ml[i] : i \in 1..Len(ml)} :
                                ~m.is_formal_opt}))
             = nb_min_params(params)

(***************************************************************************)
(* Inputs of SpecMatch.  A subprogram specification is drawn as a flat     *)
(* list of formals, each saying whether it opens a new ParameterProfile,   *)
(* and grouped into profiles.  Formal names are drawn up to renaming: a    *)
(* formal reuses an earlier name or takes the next unused symbol.          *)
(***************************************************************************)
FlatFormal == [name : Symbols, first : BOOLEAN, default : {"null", "expr"}]

SymbolIndex(s) == CHOOSE i \in 1..Len(SymbolOrder) : SymbolOrder[i] = s

WellFormedFlat(f) ==
    /\ Len(f) > 0 => f[1].first
    /\ \A i \in 2..Len(f) : ~f[i].first => f[i].default = f[i-1].default
    /\ \A i \in 1..Len(f) :
          SymbolIndex(f[i].name)
             <= Cardinality({f[j].name : j \in 1..(i-1)}) + 1

FlatFormalLists ==
    UNION {{f \in [1..n -> FlatFormal] : WellFormedFlat(f)} : n \in 0..MaxFormals}

RECURSIVE GroupProfiles(_)
\* the list of ParameterProfile that a flat list of formals spells out
GroupProfiles(f) ==
    IF f = <<>> THEN <<>>
    ELSE LET rest == GroupProfiles(SubSeq(f, 1, Len(f) - 1))
             last == f[Len(f)]
         IN  IF last.first
             THEN Append(rest, ParameterProfile(<<last.name>>, last.default))
             ELSE [rest EXCEPT ![Len(rest)].ids = Append(@, last.name)]

SubprogramSpecs == {GroupProfiles(f) : f \in FlatFormalLists}

ParamAssoc(designator) == [designator |-> designator]

ParamLists ==
    UNION {[1..n -> {ParamAssoc(d) : d \in Designators}] : n \in 0..MaxActuals}

(***************************************************************************)
(* SpecMatch: the matcher applied to every specification and list.         *)
(***************************************************************************)
InitMatch ==
    /\ subp_params \in SubprogramSpecs
    /\ call_params \in ParamLists
    /\ match_list = "none"
    /\ accepted = "none"
    /\ pc = "start"
    /\ tree = <<>> /\ query = 0 /\ result = "none"
    /\ NoResolver

\* a call of SubprogramSpec.match_param_list(params)
MatchParamList ==
    /\ pc = "start"
    /\ match_list' = match_param_list(subp_params, call_params)
    /\ pc' = "matched"
    /\ UNCHANGED <<subp_params, call_params, accepted, tree, query, result,
                   envVars, evalVars>>

\* a call of SubprogramSpec.is_matching_param_list(params)
IsMatchingParamList ==
    /\ pc = "start"
    /\ match_list' = match_param_list(subp_params, call_params)
    /\ accepted' = is_matching_param_list(subp_params, call_params)
    /\ pc' = "checked"
    /\ UNCHANGED <<subp_params, call_params, tree, query, result,
                   envVars, evalVars>>

NextMatch == MatchParamList \/ IsMatchingParamList

SpecMatch == InitMatch /\ [][NextMatch]_vars

(***************************************************************************)
(* Properties of the overload matcher, stated over the formals of the      *)
(* specification read profile by profile (not through typed_param_list).   *)
(***************************************************************************)
RECURSIVE NbFormals(_)
NbFormals(params) ==
    IF params = <<>> THEN 0
    ELSE Len(Head(params).ids) + NbFormals(Tail(params))

RECURSIVE NbMandatoryFormals(_)
NbMandatoryFormals(params) ==
    IF params = <<>> THEN 0
    ELSE (IF Head(params).default = "null" THEN Len(Head(params).ids) ELSE 0)
         + NbMandatoryFormals(Tail(params))

RECURSIVE NthFormal(_, _)
\* the k-th formal (1 <= k <= NbFormals): its name and whether it has a default
NthFormal(params, k) ==
    IF k <= Len(Head(params).ids)
    THEN [name |-> Head(params).ids[k], opt |-> Head(params).default = "expr"]
    ELSE NthFormal(Tail(params), k - Len(Head(params).ids))

IsPositional(pa) == pa.designator = NoDesignator

\* the formals named by an Identifier designator
FormalsNamed(params, pa) ==
    IF pa.designator.kind = "Identifier"
    THEN {k \in 1..NbFormals(params) :
             NthFormal(params, k).name = pa.designator.tok}
    ELSE {}

\* the formal the i-th actual designates: the one at its position, or the
\* first one bearing the designator's name; 0 when there is none
DesignatedFormal(params, actuals, i) ==
    IF IsPositional(actuals[i])
    THEN IF i <= NbFormals(params) THEN i ELSE 0
    ELSE LET named == FormalsNamed(params, actuals[i])
         IN  IF named = {} THEN 0
             ELSE CHOOSE k \in named : \A j \in named : k <= j

\* C1: is_matching_param_list returns true iff (1) the number of actuals is
\* at most nb_max_params, (2) every record returned by match_param_list has
\* has_matched = true and (3) the number of returned records with
\* is_formal_opt = false equals nb_min_params.
C1_AcceptIffThreeConditions ==
    pc = "checked" =>
        (accepted <=>
            /\ Len(call_params) <= nb_max_params(subp_params)
            /\ \A i \in 1..Len(match_list) : match_list[i].has_matched
            /\ Cardinality({i \in 1..Len(match_list) :
                               ~match_list[i].is_formal_opt})
                 = nb_min_params(subp_params))

\* a list refused by condition (3) alone: few enough actuals, all matched
C1_Witness ==
    /\ pc = "checked"
    /\ accepted = FALSE
    /\ Len(call_params) >= 1
    /\ Len(call_params) <= NbFormals(subp_params)
    /\ \A i \in 1..Len(match_list) : match_list[i].has_matched

\* C2: whenever is_matching_param_list accepts a list, every formal that no
\* actual designates is optional.
C2_UnmatchedFormalsOptional ==
    (pc = "checked" /\ accepted = TRUE) =>
        \A k \in 1..NbFormals(subp_params) :
            (\A i \in 1..Len(call_params) :
                 DesignatedFormal(subp_params, call_params, i) # k)
            => NthFormal(subp_params, k).opt

\* the formals are m mandatory ones followed by k optional ones
MandatoryThenOptional(params) ==
    \A i, j \in 1..NbFormals(params) :
        (i < j /\ NthFormal(params, i).opt) => NthFormal(params, j).opt

\* C3: for formals that are m mandatory parameters followed by k optional
\* ones, a call with n positional arguments is accepted iff m <= n <= m + k,
\* and a call made only of named arguments designating optional formals is
\* refused whenever m > 0.
C3_ArityFiltering ==
    (pc = "checked" /\ MandatoryThenOptional(subp_params)) =>
        LET m == NbMandatoryFormals(subp_params)
            k == NbFormals(subp_params) - m
            n == Len(call_params)
        IN  /\ (\A i \in 1..n : IsPositional(call_params[i]))
                 => (accepted <=> (m <= n /\ n <= m + k))
            /\ ( /\ m > 0
                 /\ \A i \in 1..n :
                       /\ ~IsPositional(call_params[i])
                       /\ FormalsNamed(subp_params, call_params[i]) # {}
                       /\ \A f \in FormalsNamed(subp_params, call_params[i]) :
                             NthFormal(subp_params, f).opt )
                 => accepted = FALSE

\* two mandatory formals and an optional one, called with three positional
\* arguments, accepted
C3_Witness ==
    /\ pc = "checked"
    /\ NbFormals(subp_params) = 3
    /\ NbMandatoryFormals(subp_params) = 2
    /\ MandatoryThenOptional(subp_params)
    /\ Len(call_params) = 3
    /\ \A i \in 1..3 : IsPositional(call_params[i])
    /\ accepted = TRUE

\* C4: match_param_list returns one ParamMatch per actual, in the order of
\* the actuals: has_matched tells whether the actual designates a formal (by
\* position, or by the name of an Identifier designator; the first formal of
\* that name), is_formal_opt whether that formal has a default, and an
\* actual that designates none yields the no-match record.
C4_OneMatchPerActual ==
    pc \in {"matched", "checked"} =>
        /\ Len(match_list) = Len(call_params)
        /\ \A i \in 1..Len(call_params) :
              LET f == DesignatedFormal(subp_params, call_params, i)
              IN  IF f = 0
                  THEN match_list[i] =
                         [has_matched |-> FALSE, is_formal_opt |-> FALSE]
                  ELSE match_list[i] =
                         [has_matched |-> TRUE,
                          is_formal_opt |-> NthFormal(subp_params, f).opt]

\* a list with a positional actual past the last formal, a named actual
\* that matches an optional formal and a designator that is no Identifier
C4_Witness ==
    /\ pc = "matched"
    /\ \E i, j, l \in 1..Len(call_params) :
          /\ IsPositional(call_params[i]) /\ ~match_list[i].has_matched
          /\ call_params[j].designator.kind = "Identifier"
          /\ match_list[j].has_matched /\ match_list[j].is_formal_opt
          /\ call_params[l].designator.kind = "StringLiteral"
          /\ ~match_list[l].has_matched

(***************************************************************************)
(* The node graph.  A node is a record: its kind, its parent (0 for the    *)
(* root), its children in field order (kids), for a SingleTokNode the      *)
(* symbol of its token (tok), and in attr the fields that hold no node of  *)
(* their own here.  The fields of each kind, as declared in ast.py:        *)
(*   CallStatement  call                  Prefix     prefix, suffix        *)
(*   CallExpr       name, suffix          ParamList  params (a list)       *)
(*   ParamAssoc     [designator,] expr    (designator is null when absent) *)
(***************************************************************************)
Null == 0

Node(kind, parent, kids, tok, attr) ==
    [kind |-> kind, parent |-> parent, kids |-> kids, tok |-> tok,
     attr |-> attr]

\* BaseId and its subclasses (ast.py 1017, 1127-1140)
BaseIdKinds == {"Identifier", "StringLiteral", "EnumIdentifier", "CharLiteral"}

is_a(t, n, kinds) == n # Null /\ t[n].kind \in kinds

\* Prefix.prefix, Prefix.suffix (ast.py 1356-1357)
prefix_of(t, n) == t[n].kids[1]
suffix_of(t, n) == t[n].kids[2]
\* CallExpr.name, CallExpr.suffix (ast.py 913-914)
name_of(t, n) == t[n].kids[1]

\* the type_def of a FullTypeDecl: its last child, after the discriminants
\* (ast.py 226-229)
type_def_of(t, n) == t[n].kids[Len(t[n].kids)]

(***************************************************************************)
(* Trees are drawn as terms in prefix (pre-order) notation: a sequence of  *)
(* tokens [kind, n, tok, attr] where n is the number of children.          *)
(***************************************************************************)
TokA(kind, n, tok, attr) == [kind |-> kind, n |-> n, tok |-> tok, attr |-> attr]
\* the fields of a node that are not nodes: the symbols of ids, whether
\* default is null, the number of index ranges of indices
Attr(ids, default, ndims) == [ids |-> ids, default |-> default, ndims |-> ndims]
NoAttr == Attr(<<>>, "null", 0)
Tok(kind, n) == TokA(kind, n, "none", NoAttr)
Leaf(kind, tok) == TokA(kind, 0, tok, NoAttr)
Id(tok) == Leaf("Identifier", tok)
Num == Leaf("NumLiteral", "none")

RECURSIVE ExprTerms(_)
RECURSIVE ParamAssocLists(_, _)
\* the terms of exactly n nodes that are a name or call expression
ExprTerms(n) ==
    IF n <= 0 THEN {}
    ELSE (IF n = 1 THEN {<<Id(SymbolOrder[1])>>} ELSE {})
         \cup UNION {{<<Tok("Prefix", 2)>> \o a \o b :
                          a \in ExprTerms(k), b \in ExprTerms(n - 1 - k)}
                     : k \in 1..(n - 2)}
         \cup UNION {{<<Tok("CallExpr", 2)>> \o a \o b :
                          a \in ExprTerms(k), b \in ExprTerms(n - 1 - k)}
                     : k \in 1..(n - 2)}
         \cup UNION {UNION {{<<Tok("CallExpr", 2)>> \o a \o <<Tok("ParamList", c)>> \o l :
                          a \in ExprTerms(k), l \in ParamAssocLists(n - 2 - k, c)}
                     : c \in 0..MaxActuals} : k \in 1..(n - 2)}

\* the expression of a ParamAssoc: an expression term or a numeric literal
ActualTerms(n) ==
    ExprTerms(n) \cup (IF n = 1 THEN {<<Num>>} ELSE {})

\* a ParamAssoc of exactly n nodes, with or without a designator
ParamAssocTerms(n) ==
    {<<Tok("ParamAssoc", 1)>> \o e : e \in ActualTerms(n - 1)}
    \cup {<<Tok("ParamAssoc", 2), Id(SymbolOrder[1])>> \o e :
             e \in ActualTerms(n - 2)}

\* the lists of c ParamAssoc terms of n nodes in all
ParamAssocLists(n, c) ==
    IF c = 0 THEN (IF n = 0 THEN {<<>>} ELSE {})
    ELSE UNION {{pa \o l : pa \in ParamAssocTerms(k),
                           l \in ParamAssocLists(n - k, c - 1)}
                : k \in 2..n}

\* the statements of at most max nodes that hold one expression
StatementTerms(max) ==
    UNION {{<<Tok("CallStatement", 1)>> \o e : e \in ExprTerms(n)}
           : n \in 1..(max - 1)}

RECURSIVE PopDone(_)
\* the stack of open nodes without the topmost ones that await no child
PopDone(st) ==
    IF st # <<>> /\ st[Len(st)].left = 0
    THEN PopDone(SubSeq(st, 1, Len(st) - 1))
    ELSE st

RECURSIVE ParentFold(_, _, _, _)
\* the parent of every node from the i-th on, appended to acc; st holds the
\* open nodes with the number of children each still awaits
ParentFold(term, i, st, acc) ==
    IF i > Len(term) THEN acc
    ELSE LET p   == IF st = <<>> THEN Null ELSE st[Len(st)].node
             st1 == IF st = <<>> THEN st
                    ELSE [st EXCEPT ![Len(st)].left = @ - 1]
             st2 == IF term[i].n > 0
                    THEN Append(st1, [node |-> i, left |-> term[i].n])
                    ELSE st1
         IN  ParentFold(term, i + 1, PopDone(st2), Append(acc, p))

\* the nodes whose parent is i, in order
KidsOf(parent, i) ==
    SeqFilterIdx(parent, {i}, 1)

\* the node graph a term denotes
TreeOf(term) ==
    LET parent == ParentFold(term, 1, <<>>, <<>>)
    IN  [i \in 1..Len(term) |->
            Node(term[i].kind, parent[i], KidsOf(parent, i),
                 term[i].tok, term[i].attr)]

(***************************************************************************)
(* BaseId.parent_callexpr (ast.py 1044-1070).                              *)
(* Self.parents is the node followed by its ancestors, innermost first:    *)
(* the predicate of take_while accepts a BaseId, which only the node       *)
(* itself can be, its ancestors being Prefix or CallExpr nodes.            *)
(***************************************************************************)
RECURSIVE parents(_, _)
parents(t, n) ==
    IF n = Null THEN <<>> ELSE <<n>> \o parents(t, t[n].parent)

RECURSIVE take_while(_, _)
\* s.take_while(pred), pred given as the set of elements that pass
take_while(s, keep) ==
    IF s = <<>> \/ Head(s) \notin keep THEN <<>>
    ELSE <<Head(s)>> \o take_while(Tail(s), keep)

\* s.find(pred): the first element that passes, Null when there is none
find(s, keep) ==
    LET f == SeqFilter(s, keep) IN IF f = <<>> THEN Null ELSE f[1]

\* the lambda of take_while, with the parent's kind tested by mistake in
\* place of the field that holds p
on_call_path_anyfield(t, p) ==
    \/ is_a(t, p, {"CallExpr"})
    \/ /\ is_a(t, p, {"Prefix"} \cup BaseIdKinds)
       /\ is_a(t, t[p].parent, {"Prefix", "CallExpr"})

\* the lambda of take_while
on_call_path(t, p) ==
    \/ is_a(t, p, {"CallExpr"})
    \/ /\ is_a(t, p, {"Prefix"} \cup BaseIdKinds)
       /\ LET pp == t[p].parent
          IN  CASE is_a(t, pp, {"Prefix"})   -> suffix_of(t, pp) = p
                [] is_a(t, pp, {"CallExpr"}) -> name_of(t, pp) = p
                [] OTHER                     -> FALSE

parent_callexpr(t, n) ==
    LET ps == parents(t, n)
        all == {ps[i] : i \in 1..Len(ps)}
    IN  find(take_while(ps, {p \in all : on_call_path(t, p)}),
             {p \in all : is_a(t, p, {"CallExpr"})})

(***************************************************************************)
(* SpecCallHead: parent_callexpr queried on the identifiers of a tree.     *)
(***************************************************************************)
CallTrees(max) == {TreeOf(term) : term \in StatementTerms(max)}

InitCallHead ==
    /\ tree \in CallTrees(MaxNodes)
    /\ query = 0
    /\ result = "none"
    /\ pc = "parsed"
    /\ subp_params = <<>> /\ call_params = <<>>
    /\ match_list = "none" /\ accepted = "none"
    /\ NoResolver

\* a call of BaseId.parent_callexpr on node n
ParentCallexpr(n) ==
    /\ is_a(tree, n, BaseIdKinds)
    /\ query' = n
    /\ result' = parent_callexpr(tree, n)
    /\ pc' = "parent_callexpr"
    /\ UNCHANGED <<tree, matchVars, envVars, evalVars>>

NextCallHead == \E n \in 1..Len(tree) : ParentCallexpr(n)

SpecCallHead == InitCallHead /\ [][NextCallHead]_vars

(***************************************************************************)
(* Properties of call-head detection.                                      *)
(***************************************************************************)
\* the statement A.B.C (1, 2): nodes 5, 6, 7 are A, B, C, node 2 the CallExpr
ABC_Call ==
    TreeOf(<<Tok("CallStatement", 1), Tok("CallExpr", 2),
             Tok("Prefix", 2), Tok("Prefix", 2),
             Id("x"), Id("x"), Id("x"),
             Tok("ParamList", 2),
             Tok("ParamAssoc", 1), Num,
             Tok("ParamAssoc", 1), Num>>)

RECURSIVE NearestCall(_, _)
\* Walking upward from n: the CallExpr reached when every step leaves a node
\* that is the suffix of its Prefix parent or the name of its CallExpr
\* parent; Null when some step leaves a node held by another field.
NearestCall(t, n) ==
    LET up == t[n].parent
    IN  IF up = Null THEN Null
        ELSE IF t[up].kind = "Prefix" /\ t[up].kids[2] = n
             THEN NearestCall(t, up)
        ELSE IF t[up].kind = "CallExpr" /\ t[up].kids[1] = n
             THEN up
        ELSE Null

\* C5: parent_callexpr of a BaseId is the nearest CallExpr reached by
\* walking upward through suffix-of-Prefix and name-of-CallExpr steps, and
\* null when there is none; so an identifier that is the prefix side of a
\* Prefix or sits in an argument list has a null parent_callexpr, and in
\* A.B.C (1, 2) only C is a call head.
C5_CallHead ==
    pc = "parent_callexpr" =>
        /\ result = NearestCall(tree, query)
        /\ result # Null => tree[result].kind = "CallExpr"
        /\ LET up == tree[query].parent
           IN  ( \/ (tree[up].kind = "Prefix" /\ tree[up].kids[1] = query)
                 \/ tree[up].kind = "ParamAssoc" )
               => result = Null
        /\ tree = ABC_Call => (result # Null <=> query = 7)

\* C of A.B.C (1, 2) found to be the head of the call
C5_Witness ==
    /\ pc = "parent_callexpr"
    /\ tree = ABC_Call
    /\ query = 7
    /\ result = 2

(***************************************************************************)
(* Lexical environments.  The environment primitives belong to the         *)
(* property runtime, which is not part of the sources: they are modelled   *)
(* from the specification (section 3).  An environment is identified by    *)
(* the node that owns it (RootId for the root environment); an environment *)
(* value is a list of references [env, follow], follow saying whether a    *)
(* lookup continues in the parent chain.  The empty list is EmptyEnv.      *)
(***************************************************************************)
RootId == 0
EmptyId == -1

\* Metadata (ast.py 35-45) and the value add_to_env stores when none is given
Metadata(dottable_subprogram, implicit_deref) ==
    [dottable_subprogram |-> dottable_subprogram,
     implicit_deref |-> implicit_deref]
no_md == Metadata(FALSE, FALSE)

EnvElement(el, MD) == [el |-> el, MD |-> MD]

EmptyEnv == <<>>

\* the environment value that designates the primary environment id
EnvRef(id) ==
    IF id = EmptyId THEN EmptyEnv ELSE <<[env |-> id, follow |-> TRUE]>>

\* an orphan that keeps its parent links
env_orphan_linked(ev) == ev

\* env.env_orphan: the same tables with the parent links severed
env_orphan(ev) == [i \in DOMAIN ev |-> [ev[i] EXCEPT !.follow = FALSE]]

\* a group that keeps its first member only
env_group_first(evs) == IF evs = <<>> THEN EmptyEnv ELSE Head(evs)

RECURSIVE env_group(_)
\* envs.env_group / EnvGroup(...): lookups query the members in order
env_group(evs) ==
    IF evs = <<>> THEN EmptyEnv ELSE Head(evs) \o env_group(Tail(evs))

RECURSIVE LookupFrom(_, _, _, _)
\* the entities stored under sym in environment id, in insertion order,
\* followed (when follow) by those of its parent chain
LookupFrom(E, id, sym, follow) ==
    IF id = EmptyId THEN <<>>
    ELSE LET map == E[id].map
             hit == SeqFilterIdx(map, {e \in {map[i] : i \in 1..Len(map)} :
                                         e.key = sym}, 1)
         IN  [k \in 1..Len(hit) |-> EnvElement(map[hit[k]].el, map[hit[k]].MD)]
             \o (IF follow THEN LookupFrom(E, E[id].parent, sym, TRUE)
                 ELSE <<>>)

\* lookups that stop at the first environment and leave its ancestors out
env_get_local(E, ev, sym) ==
    IF ev = <<>> THEN <<>> ELSE LookupFrom(E, Head(ev).env, sym, FALSE)

RECURSIVE env_get(_, _, _)
\* Env.get(sym)
env_get(E, ev, sym) ==
    IF ev = <<>> THEN <<>>
    ELSE LookupFrom(E, Head(ev).env, sym, Head(ev).follow)
         \o env_get(E, Tail(ev), sym)

\* Env.resolve_unique(sym).el: the first entity found, Null when none
resolve_unique(E, ev, sym) ==
    LET found == env_get(E, ev, sym)
    IN  IF found = <<>> THEN Null ELSE found[1].el

(***************************************************************************)
(* Node kinds and field accessors.  The fields of a node that hold nodes   *)
(* are its kids, lists inlined in place; ids and defaults are attributes.  *)
(***************************************************************************)
BasicSubprogramDeclKinds ==
    {"SubprogramDecl", "NullSubprogramDecl", "AbstractSubprogramDecl",
     "ExpressionFunction", "RenamingSubprogramDecl"}
TypeDeclKinds == {"FullTypeDecl", "SubtypeDecl"}
PackageKinds == {"PackageDecl", "PackageBody"}
BasicDeclKinds ==
    BasicSubprogramDeclKinds \cup TypeDeclKinds \cup PackageKinds
    \cup {"SubprogramBody", "ObjectDecl", "ComponentDecl", "DiscriminantSpec",
          "GenericPackageDecl"}

\* kids of node n whose kind is in kinds, in order
KidsOfKind(t, n, kinds) ==
    SeqFilter(t[n].kids, {k \in {t[n].kids[i] : i \in 1..Len(t[n].kids)} :
                            t[k].kind \in kinds})

\* BasicSubprogramDecl.subp_spec, SubprogramBody.subp_spec
subp_spec_of(t, n) == t[n].kids[1]
\* SubprogramSpec.name, BasePackageDecl.package_name, PackageBody.package_name
decl_name_of(t, n) ==
    IF t[n].kind \in BasicSubprogramDeclKinds \cup {"SubprogramBody"}
    THEN t[subp_spec_of(t, n)].kids[1]
    ELSE t[n].kids[1]
\* SubprogramSpec.params as the matcher reads them
params_of(t, ss) ==
    LET ps == KidsOfKind(t, ss, {"ParameterProfile"})
    IN  [i \in 1..Len(ps) |->
            ParameterProfile(t[ps[i]].attr.ids, t[ps[i]].attr.default)]
\* SubprogramSpec.returns, Null for a procedure
returns_of(t, ss) ==
    LET r == KidsOfKind(t, ss, {"TypeExpression"})
    IN  IF r = <<>> THEN Null ELSE r[1]
\* ParamList.params as the matcher reads them
actuals_of(t, pl) ==
    [i \in 1..Len(t[pl].kids) |->
        LET pa == t[t[pl].kids[i]]
        IN  ParamAssoc(IF Len(pa.kids) = 2
                       THEN [kind |-> t[pa.kids[1]].kind,
                             tok |-> t[pa.kids[1]].tok]
                       ELSE NoDesignator)]

(***************************************************************************)
(* Names during the environment build (ast.py 987-1031, 1364-1375).        *)
(***************************************************************************)
RECURSIVE name_symbol(_, _)
\* Name.name.symbol: the token of a BaseId, the suffix's for a Prefix
name_symbol(t, n) ==
    IF t[n].kind = "Prefix" THEN name_symbol(t, suffix_of(t, n)) ELSE t[n].tok

(***************************************************************************)
(* The environment build pass.  The per-kind rules are the env_spec and    *)
(* child_unit declarations of ast.py; how a rule is carried out (entities  *)
(* go to the initial environment, a new environment is parented on it,     *)
(* nodes are visited top-down) is the runtime's and follows section 4.1.   *)
(***************************************************************************)
\* the kinds declared through child_unit (ast.py 534, 721, 808, 1398, 1546)
ChildUnitKinds ==
    BasicSubprogramDeclKinds
    \cup {"PackageDecl", "GenericPackageDecl", "SubprogramBody", "PackageBody"}

\* the kinds whose env_spec has add_env (ast.py 97, 220, 691, 1394, 1505)
AddEnvKinds ==
    ChildUnitKinds \cup TypeDeclKinds
    \cup {"PrivatePart", "CompilationUnit", "BlockStatement"}

\* the symbols of a declaration cut down to the first
EnvKeys_first(t, n) ==
    CASE t[n].kind \in {"ObjectDecl", "ComponentDecl", "DiscriminantSpec",
                        "ParameterProfile"} -> <<t[n].attr.ids[1]>>
      [] t[n].kind \in TypeDeclKinds -> <<t[n].tok>>
      [] t[n].kind \in ChildUnitKinds -> <<name_symbol(t, decl_name_of(t, n))>>
      [] OTHER -> <<>>


\* the symbols under which the env_spec of n registers n
\* (ast.py 97-99, 143, 181, 220, 526, 667)
EnvKeys(t, n) ==
    CASE t[n].kind \in {"ObjectDecl", "ComponentDecl", "DiscriminantSpec",
                        "ParameterProfile"} -> t[n].attr.ids
      [] t[n].kind \in TypeDeclKinds -> <<t[n].tok>>
      [] t[n].kind \in ChildUnitKinds -> <<name_symbol(t, decl_name_of(t, n))>>
      [] OTHER -> <<>>

\* Self.children_env of node d, as an environment id: its own environment
\* when it has one, else the one it lives in
children_env_id(E, NE, d) == IF d \in DOMAIN E THEN d ELSE NE[d]

\* the scope of a unit taken to be the enclosing environment whatever its
\* name
scope_enclosing(t, E, NE, n, ev) == ev

RECURSIVE env_for_scope(_, _, _, _, _)
RECURSIVE scope(_, _, _, _, _)
\* Name.env_for_scope (ast.py 989), BaseId.env_for_scope (1019-1023),
\* Prefix.env_for_scope (1364-1367), evaluated with Env bound to ev
env_for_scope(t, E, NE, n, ev) ==
    CASE t[n].kind \in BaseIdKinds ->
            LET d == resolve_unique(E, ev, t[n].tok)
            IN  IF d # Null /\ t[d].kind \in PackageKinds
                THEN EnvRef(children_env_id(E, NE, d))
                ELSE EmptyEnv
      [] t[n].kind = "Prefix" ->
            IF t[suffix_of(t, n)].kind \in BaseIdKinds
            THEN env_for_scope(t, E, NE, suffix_of(t, n),
                               scope(t, E, NE, n, ev))
            ELSE EmptyEnv
      [] OTHER -> EmptyEnv

\* BaseId.scope (ast.py 1031), Prefix.scope (1369-1372)
scope(t, E, NE, n, ev) ==
    CASE t[n].kind \in BaseIdKinds -> ev
      [] t[n].kind = "Prefix" ->
            IF t[prefix_of(t, n)].kind \in BaseIdKinds \cup {"Prefix"}
            THEN env_for_scope(t, E, NE, prefix_of(t, n), ev)
            ELSE EmptyEnv
      [] OTHER -> EmptyEnv

\* the primary environment an environment value stands for
PrimaryId(ev) == IF ev = <<>> THEN EmptyId ELSE ev[1].env

RECURSIVE AddAll(_, _, _)
\* map extended with el under each key, in the order of keys
AddAll(map, keys, el) ==
    IF keys = <<>> THEN map
    ELSE AddAll(Append(map, [key |-> Head(keys), el |-> el, MD |-> no_md]),
                Tail(keys), el)

\* the environments after the env_spec of node n has been carried out
BuildStep(t, E, NE, n) ==
    LET cur  == IF t[n].parent = Null THEN RootId
                ELSE children_env_id(E, NE, t[n].parent)
        init == IF t[n].kind \in ChildUnitKinds
                THEN PrimaryId(scope(t, E, NE, decl_name_of(t, n), EnvRef(cur)))
                ELSE cur
        E1   == IF init = EmptyId THEN E
                ELSE [E EXCEPT ![init].map = AddAll(@, EnvKeys(t, n), n)]
        E2   == IF t[n].kind \in AddEnvKinds
                THEN E1 @@ (n :> [parent |-> init, map |-> <<>>])
                ELSE E1
    IN  [envs |-> E2, node_env |-> NE @@ (n :> init)]

InitialEnvs == (RootId :> [parent |-> EmptyId, map |-> <<>>])

(***************************************************************************)
(* The resolver's queries on names and declarations.  A property called    *)
(* on a node that is null raises Property_Error: designated_type answers   *)
(* PropertyError for it, where Null is the answer "no node".               *)
(***************************************************************************)
PropertyError == -2

RECURSIVE array_ndims(_, _, _, _)
RECURSIVE designated_type(_, _, _, _, _)
RECURSIVE env_elements(_, _, _, _, _)
RECURSIVE array_ndims_then(_, _, _, _)
RECURSIVE defining_env(_, _, _, _)
RECURSIVE designated_env(_, _, _, _, _)

\* the first element of s, Null when s is empty: s.at(0)
at0(s) == Only({IF v = <<>> THEN Null ELSE v[1] : v \in {s}})

\* the lambda of the filter when the identifier is not a call head, with
\* the dottable_subprogram alternative left out
keep_bare_nodot(t, e) ==
    IF t[e.el].kind \in BasicSubprogramDeclKinds \cup {"SubprogramBody"}
    THEN nb_min_params(params_of(t, subp_spec_of(t, e.el))) = 0
    ELSE TRUE

\* the lambda of the filter when the identifier is not a call head
\* (ast.py 1083-1098)
keep_bare(t, e) ==
    IF t[e.el].kind \in BasicDeclKinds
    THEN LET subp_spec ==
                 IF t[e.el].kind \in BasicSubprogramDeclKinds
                                     \cup {"SubprogramBody"}
                 THEN subp_spec_of(t, e.el)
                 ELSE Null
         IN  IF subp_spec # Null
             THEN \/ /\ e.MD.dottable_subprogram
                     /\ nb_min_params(params_of(t, subp_spec)) = 1
                  \/ nb_min_params(params_of(t, subp_spec)) = 0
             ELSE TRUE
    ELSE TRUE

\* the lambda of the filter of a call head, with the test of the number of
\* dimensions left out
keep_called_anydims(t, E, NE, params, e) ==
    IF t[e.el].kind \in BasicSubprogramDeclKinds \cup {"SubprogramBody"}
    THEN is_matching_param_list(params_of(t, subp_spec_of(t, e.el)),
                                actuals_of(t, params))
    ELSE TRUE

\* the lambda of the filter of a call head whose suffix is the ParamList
\* params (ast.py 1105-1113)
keep_called(t, E, NE, params, e) ==
    CASE t[e.el].kind \in BasicSubprogramDeclKinds \cup {"SubprogramBody"} ->
            is_matching_param_list(params_of(t, subp_spec_of(t, e.el)),
                                   actuals_of(t, params))
      [] t[e.el].kind = "ObjectDecl" ->
            array_ndims(t, E, NE, e.el) = Len(t[params].kids)
      [] OTHER -> TRUE

\* the If of BaseId.env_elements (ast.py 1078-1115), pce being the value
\* of Self.parent_callexpr
filter_for(t, E, NE, pce, items) ==
    IF pce = Null
    THEN SeqFilter(items, {e \in {items[i] : i \in 1..Len(items)} :
                              keep_bare(t, e)})
    ELSE IF t[suffix_of(t, pce)].kind = "ParamList"
         THEN SeqFilter(items, {e \in {items[i] : i \in 1..Len(items)} :
                                   keep_called(t, E, NE, suffix_of(t, pce), e)})
         ELSE items

\* BaseId.env_elements after items has been looked up (ast.py 1075-1115)
filter_items(t, E, NE, n, items) ==
    Only({filter_for(t, E, NE, pce, v) :
             pce \in {parent_callexpr(t, n)}, v \in {items}})

\* the values that stand for a raised Property_Error where an environment
\* and where a list of elements is expected
FailedEnv == <<[env |-> PropertyError, follow |-> FALSE]>>
FailedElements == <<[el |-> PropertyError, MD |-> no_md]>>

\* the suffix looked up in the environment the dotted name stands in
env_elements_unscoped(t, E, NE, n, env) == env_elements(t, E, NE, n, EnvRef(NE[n]))

\* env.eval_in_env(n.env_elements)
env_elements_in(t, E, NE, n, env) ==
    IF env = FailedEnv THEN FailedElements
    ELSE env_elements(t, E, NE, n, env)

\* BaseId.env_elements (ast.py 1072-1115), CallExpr.env_elements (923),
\* Prefix.env_elements (1375-1377), with Env bound to ev
env_elements(t, E, NE, n, ev) ==
    CASE t[n].kind \in BaseIdKinds ->
            filter_items(t, E, NE, n, env_get(E, ev, t[n].tok))
      [] t[n].kind = "CallExpr" -> env_elements(t, E, NE, name_of(t, n), ev)
      [] t[n].kind = "Prefix" ->
            Only({env_elements_in(t, E, NE, suffix_of(t, n), env) :
                     env \in {designated_env(t, E, NE, prefix_of(t, n), ev)}})

\* the nodes of a list of elements: map(lambda e: e.el)
els(ee) == Only({[i \in 1..Len(v) |-> v[i].el] : v \in {ee}})

\* entities taken from the lookup result, the filter left out
entities_of_items(t, E, NE, n, ev) == els(env_get(E, ev, t[n].tok))

\* Expr.entities (ast.py 869-875)
entities(t, E, NE, n, ev) == els(env_elements(t, E, NE, n, ev))

\* the first node of es whose kind is in kinds, Null when there is none:
\* filter(...).at(0)
first_of_kind(t, es, kinds) ==
    Only({at0(SeqFilter(v, {e \in {v[i] : i \in 1..Len(v)} :
                                  t[e].kind \in kinds})) : v \in {es}})

\* the suffix of the Prefix n designating a type in the package pkg:
\* pkg.children_env.eval_in_env(Self.suffix.designated_type), a
\* Property_Error when pkg is null
type_in_package(t, E, NE, n, pkg) ==
    IF pkg = Null THEN PropertyError
    ELSE designated_type(t, E, NE, suffix_of(t, n),
                         EnvRef(children_env_id(E, NE, pkg)))

\* BaseId.designated_type (ast.py 1038-1042), CallExpr.designated_type
\* (928), Prefix.designated_type (1382-1386)
designated_type(t, E, NE, n, ev) ==
    CASE t[n].kind \in BaseIdKinds ->
            first_of_kind(t, entities(t, E, NE, n, ev), TypeDeclKinds)
      [] t[n].kind = "CallExpr" ->
            designated_type(t, E, NE, name_of(t, n), ev)
      [] t[n].kind = "Prefix" ->
            Only({type_in_package(t, E, NE, n, pkg) :
                     pkg \in {first_of_kind(t,
                                  entities(t, E, NE, prefix_of(t, n), ev),
                                  PackageKinds)}})

\* TypeRef.designated_type (ast.py 489-491): the name is evaluated in the
\* environment of the TypeRef node
TypeRef_designated_type(t, E, NE, r) ==
    designated_type(t, E, NE, name_of(t, r), EnvRef(NE[r]))

\* designated_type.then(lambda t: t.array_ndims, default_val=0)
\* (ast.py 493-497)
array_ndims_then(t, E, NE, dt) ==
    CASE dt = Null -> 0
      [] dt = PropertyError -> PropertyError
      [] OTHER -> array_ndims(t, E, NE, dt)

\* array_ndims of declarations, type definitions and type expressions
\* (ast.py 118, 152, 191, 231, 309, 365, 382, 460, 493-497, 503, 669-679)
array_ndims(t, E, NE, n) ==
    CASE t[n].kind = "ArrayTypeDef" -> t[n].attr.ndims
      [] t[n].kind \in {"ObjectDecl", "SubtypeDecl", "DerivedTypeDef",
                        "TypeExpression"} ->
            array_ndims(t, E, NE, t[n].kids[1])
      [] t[n].kind = "FullTypeDecl" -> array_ndims(t, E, NE, type_def_of(t, n))
      [] t[n].kind = "ComponentDecl" ->
            array_ndims(t, E, NE, t[t[n].kids[1]].kids[1])
      [] t[n].kind = "TypeRef" ->
            Only({array_ndims_then(t, E, NE, dt) :
                     dt \in {TypeRef_designated_type(t, E, NE, n)}})
      [] OTHER -> 0

(***************************************************************************)
(* Programs.  E2EPrograms is the family around the end-to-end scenario:    *)
(* package P declares subprogram Foo, package Q is a child unit P.Q or is  *)
(* nested in P, and the body of P holds a call statement and a statement   *)
(* made of a bare name, both on the same symbol.                           *)
(***************************************************************************)
ProfileTerm(p) ==
    TokA("ParameterProfile", 0, "none", Attr(p.ids, p.default, 0))

SubprogramSpecTerm(name, params) ==
    <<Tok("SubprogramSpec", 1 + Len(params)), Id(name)>>
    \o [i \in 1..Len(params) |-> ProfileTerm(params[i])]

RECURSIVE PositionalActuals(_)
PositionalActuals(n) ==
    IF n = 0 THEN <<>>
    ELSE <<Tok("ParamAssoc", 1), Num>> \o PositionalActuals(n - 1)

CallStatementTerm(sym, nargs) ==
    <<Tok("CallStatement", 1), Tok("CallExpr", 2), Id(sym),
      Tok("ParamList", nargs)>> \o PositionalActuals(nargs)

BareStatementTerm(sym) == <<Tok("CallStatement", 1), Id(sym)>>

BoolToNat(b) == IF b THEN 1 ELSE 0

ObjectDeclTerm(id, type_expr) ==
    <<TokA("ObjectDecl", 1, "none", Attr(<<id>>, "null", 0))>> \o type_expr

ArrayTypeDefTerm(n) == <<TokA("ArrayTypeDef", 0, "none", Attr(<<>>, "null", n))>>

TypeRefTerm(name) == <<Tok("TypeExpression", 1), Tok("TypeRef", 1)>> \o name

E2EProgram(fooParams, qNested, bodyFoo, sym, nargs) ==
    LET foo   == SubprogramSpecTerm("Foo", fooParams)
        declQ == IF qNested THEN <<Tok("PackageDecl", 1), Id("Q")>>
                 ELSE <<Tok("PackageDecl", 1), Tok("Prefix", 2),
                        Id("P"), Id("Q")>>
        declP == <<Tok("PackageDecl", 2 + BoolToNat(qNested)), Id("P"),
                   Tok("SubprogramDecl", 1)>> \o foo
                 \o (IF qNested THEN declQ ELSE <<>>)
        bodyP == <<Tok("PackageBody", 3 + BoolToNat(bodyFoo)), Id("P")>>
                 \o (IF bodyFoo THEN <<Tok("SubprogramBody", 1)>> \o foo
                     ELSE <<>>)
                 \o CallStatementTerm(sym, nargs)
                 \o BareStatementTerm(sym)
    IN  TreeOf(<<Tok("CompilationUnit", 3 - BoolToNat(qNested))>>
               \o declP \o (IF qNested THEN <<>> ELSE declQ) \o bodyP)

\* the specifications Foo is declared with: at most one formal
E2ESpecs == {s \in SubprogramSpecs : Len(typed_param_list(s)) <= 1}

E2EPrograms ==
    {E2EProgram(s, q, b, sym, n) :
        s \in E2ESpecs, q \in BOOLEAN, b \in BOOLEAN,
        sym \in {"Foo", "Bar"}, n \in 0..MaxActuals}

Programs == E2EPrograms

(***************************************************************************)
(* TypePrograms: package P declares one type per name of TypeNameOrder,    *)
(* each a record type, a type derived from a named type or a subtype of a  *)
(* named type, and an object of the first type.  The names are those of    *)
(* the types themselves (whence cycles), an undeclared U, and the dotted   *)
(* names P.T and U.T.                                                      *)
(***************************************************************************)
TypeNameOrder == <<"T1", "T2">>

SimpleNameTerms ==
    {<<Id(TypeNameOrder[i])>> : i \in 1..Len(TypeNameOrder)} \cup {<<Id("U")>>}

DottedNameTerms ==
    {<<Tok("Prefix", 2), Id(p), Id(TypeNameOrder[1])>> : p \in {"P", "U"}}

TypeDeclTerms(name) ==
    {<<TokA("FullTypeDecl", 1, name, NoAttr), Tok("RecordTypeDef", 0)>>}
    \cup {<<TokA("FullTypeDecl", 1, name, NoAttr), Tok("DerivedTypeDef", 1)>>
          \o TypeRefTerm(r) : r \in SimpleNameTerms \cup DottedNameTerms}
    \cup {<<TokA("SubtypeDecl", 1, name, NoAttr)>> \o TypeRefTerm(r) :
             r \in SimpleNameTerms}

RECURSIVE TypeDeclLists(_)
\* the declarations of the first k types, in order
TypeDeclLists(k) ==
    IF k = 0 THEN {<<>>}
    ELSE {l \o d : l \in TypeDeclLists(k - 1),
                   d \in TypeDeclTerms(TypeNameOrder[k])}

TypeProgram(decls) ==
    TreeOf(<<Tok("CompilationUnit", 1),
             Tok("PackageDecl", 2 + Len(TypeNameOrder)), Id("P")>>
           \o decls
           \o ObjectDeclTerm("V", TypeRefTerm(<<Id(TypeNameOrder[1])>>)))

TypePrograms == {TypeProgram(l) : l \in TypeDeclLists(Len(TypeNameOrder))}


(***************************************************************************)
(* defining_env (ast.py 108, 183-187, 233-247, 383, 461-464, 476-479, 498,  *)
(* 543, 680-685, 714, 1280-1287, 1410, 1555), split into the declaration   *)
(* whose defining_env a declaration reads and the value it makes of it.    *)
(***************************************************************************)
\* Self.designated_type.defining_env (ast.py 498): the declaration whose
\* defining_env is read, a Property_Error when designated_type is null
deref(dt) == IF dt = Null THEN PropertyError ELSE dt

\* TypeExpression.defining_env of te: the declaration whose defining_env
\* it returns; Null when it is EmptyEnv or when te is Null
type_expr_target(t, E, NE, te) ==
    IF te # Null /\ t[t[te].kids[1]].kind = "TypeRef"
    THEN Only({deref(dt) :
                  dt \in {TypeRef_designated_type(t, E, NE, t[te].kids[1])}})
    ELSE Null

\* the TypeExpression whose defining_env that of d reads, Null when none
defining_type_expr(t, d) ==
    CASE t[d].kind = "FullTypeDecl"
         /\ t[type_def_of(t, d)].kind = "DerivedTypeDef" ->
            t[type_def_of(t, d)].kids[1]
      [] t[d].kind = "SubtypeDecl" -> t[d].kids[1]
      [] t[d].kind = "ObjectDecl" /\ t[t[d].kids[1]].kind = "TypeExpression" ->
            t[d].kids[1]
      [] t[d].kind = "ComponentDecl" -> t[t[d].kids[1]].kids[1]
      [] t[d].kind \in BasicSubprogramDeclKinds \cup {"SubprogramBody"} ->
            returns_of(t, subp_spec_of(t, d))
      [] OTHER -> Null

\* the declaration whose defining_env that of d is made of, Null when none
defining_env_dep(t, E, NE, d) ==
    Only({type_expr_target(t, E, NE, te) : te \in {defining_type_expr(t, d)}})

\* defining_env with the environments of types and packages left linked
\* to their parents
defining_env_value_linked(t, E, NE, d, inherited) ==
    CASE t[d].kind = "FullTypeDecl" ->
            IF t[type_def_of(t, d)].kind = "DerivedTypeDef"
            THEN env_group(<<EnvRef(children_env_id(E, NE, d)), inherited>>)
            ELSE EnvRef(children_env_id(E, NE, d))
      [] t[d].kind \in PackageKinds -> EnvRef(children_env_id(E, NE, d))
      [] t[d].kind \in {"SubtypeDecl", "ObjectDecl", "ComponentDecl",
                        "SubprogramBody"}
                       \cup BasicSubprogramDeclKinds -> inherited
      [] OTHER -> EmptyEnv

\* defining_env of d, inherited being the defining_env it reads
defining_env_value(t, E, NE, d, inherited) ==
    CASE t[d].kind = "FullTypeDecl" ->
            IF t[type_def_of(t, d)].kind = "DerivedTypeDef"
            THEN env_group(<<env_orphan(EnvRef(children_env_id(E, NE, d))),
                             inherited>>)
            ELSE env_orphan(EnvRef(children_env_id(E, NE, d)))
      [] t[d].kind \in PackageKinds ->
            env_orphan(EnvRef(children_env_id(E, NE, d)))
      [] t[d].kind \in {"SubtypeDecl", "ObjectDecl", "ComponentDecl",
                        "SubprogramBody"}
                       \cup BasicSubprogramDeclKinds -> inherited
      [] OTHER -> EmptyEnv

\* defining_env of d made of the defining_env read, a failure of which
\* is that of d
defining_env_from(t, E, NE, d, inherited) ==
    IF inherited = FailedEnv THEN FailedEnv
    ELSE defining_env_value(t, E, NE, d, inherited)

\* defining_env of d, dep being the declaration whose defining_env it reads
defining_env_on(t, E, NE, d, dep) ==
    CASE dep = PropertyError -> FailedEnv
      [] dep = Null -> defining_env_value(t, E, NE, d, EmptyEnv)
      [] OTHER -> Only({defining_env_from(t, E, NE, d, inherited) :
                           inherited \in {defining_env(t, E, NE, dep)}})

\* BasicDecl.defining_env as the properties compute it, one calling the
\* other; for programs whose declarations do not depend on themselves
defining_env(t, E, NE, d) ==
    Only({defining_env_on(t, E, NE, d, dep) :
             dep \in {defining_env_dep(t, E, NE, d)}})

RECURSIVE group_defining_envs(_, _, _, _, _)
\* es.map(e -> defining_env of e when its kind is in kinds, else
\* EmptyEnv).env_group
group_defining_envs(t, E, NE, es, kinds) ==
    IF es = <<>> THEN EmptyEnv
    ELSE IF Head(es) = PropertyError THEN FailedEnv
    ELSE Only({IF first = FailedEnv \/ rest = FailedEnv THEN FailedEnv
               ELSE env_group(<<first, rest>>) :
                  first \in {IF t[Head(es)].kind \in kinds
                              THEN defining_env(t, E, NE, Head(es))
                              ELSE EmptyEnv},
                  rest \in {group_defining_envs(t, E, NE, Tail(es), kinds)}})

\* env.eval_in_env(n.designated_env)
designated_env_in(t, E, NE, n, env) ==
    IF env = FailedEnv THEN FailedEnv
    ELSE designated_env(t, E, NE, n, env)

\* BaseId.designated_env (ast.py 1025-1029), CallExpr.designated_env
\* (912-918), Prefix.designated_env (1359-1361), with Env bound to ev
designated_env(t, E, NE, n, ev) ==
    CASE t[n].kind \in BaseIdKinds ->
            Only({group_defining_envs(t, E, NE, es, BasicDeclKinds) :
                     es \in {entities(t, E, NE, n, ev)}})
      [] t[n].kind = "CallExpr" ->
            Only({group_defining_envs(t, E, NE, es,
                        BasicSubprogramDeclKinds \cup {"SubprogramBody"}) :
                     es \in {entities(t, E, NE, n, ev)}})
      [] t[n].kind = "Prefix" ->
            Only({designated_env_in(t, E, NE, suffix_of(t, n), env) :
                     env \in {designated_env(t, E, NE, prefix_of(t, n), ev)}})

(***************************************************************************)
(* The evaluation of defining_env.  The properties of ast.py call one      *)
(* another with no guard of their own; the memo cell of each node and its  *)
(* "being computed" mark are the evaluator's, modelled from sections 5, 7  *)
(* and 9 of the specification: a value is computed once per node, and a    *)
(* demand that re-enters a node being computed gets EmptyEnv.              *)
(***************************************************************************)
MaxDepth == 6

Decls(t) == {n \in 1..Len(t) : t[n].kind \in BasicDeclKinds}

NotComputed == [state |-> "none", value |-> EmptyEnv]
InProgress == [state |-> "busy", value |-> EmptyEnv]
Computed(v) == [state |-> "done", value |-> v]
Failed == [state |-> "error", value |-> FailedEnv]

\* the evaluator without its mark
in_progress_unmarked(M, d) == FALSE

\* the node d is being computed
in_progress(M, d) == M[d].state = "busy"

(***************************************************************************)
(* Spec: the environment build pass over a program, then the queries of   *)
(* the candidates of its identifiers.                                      *)
(***************************************************************************)
Init ==
    /\ tree \in Programs
    /\ envs = InitialEnvs /\ node_env = <<>> /\ built = 0
    /\ memo = <<>> /\ stack = <<>> /\ job = NoJob
    /\ query = 0 /\ result = "none"
    /\ pc = "build"
    /\ subp_params = <<>> /\ call_params = <<>>
    /\ match_list = "none" /\ accepted = "none"

\* the builder visits the next node, top-down
BuildNode ==
    /\ pc = "build"
    /\ built < Len(tree)
    /\ LET b == BuildStep(tree, envs, node_env, built + 1)
       IN  /\ envs' = b.envs
           /\ node_env' = b.node_env
    /\ built' = built + 1
    /\ pc' = IF built + 1 = Len(tree) THEN "idle" ELSE "build"
    /\ UNCHANGED <<tree, query, result, matchVars, evalVars>>

Idle == pc \notin {"build", "eval"} /\ stack = <<>> /\ job = NoJob

\* Expr.env_elements called on the BaseId n, with the lookup it starts
\* from and the domain xref_equation gives the reference variable
\* (ast.py 1072-1115, 1120-1124)
EnvElements(n) ==
    /\ Idle
    /\ tree[n].kind \in BaseIdKinds
    /\ query' = n
    /\ result' = [items |-> env_get(envs, EnvRef(node_env[n]), tree[n].tok),
                  filtered |-> env_elements(tree, envs, node_env, n,
                                            EnvRef(node_env[n])),
                  ref_var |-> entities(tree, envs, node_env, n,
                                       EnvRef(node_env[n]))]
    /\ pc' = "env_elements"
    /\ UNCHANGED <<tree, matchVars, envVars, evalVars>>

\* the binding state of a logic variable whose domain is the list of
\* nodes domain: bound when it holds one node, ambiguous when it holds
\* several, failed when it holds none
binding_state(domain) ==
    LET values == {domain[i] : i \in 1..Len(domain)}
    IN  CASE Cardinality(values) = 0 ->
                [state |-> "failed", entity |-> Null, n |-> 0]
          [] Cardinality(values) = 1 ->
                [state |-> "bound", entity |-> domain[1], n |-> 1]
          [] OTHER ->
                [state |-> "ambiguous", entity |-> Null,
                 n |-> Cardinality(values)]

\* BaseId.xref_equation on the BaseId n (ast.py 1120-1124):
\* Domain(Self.ref_var, Self.entities), and the binding state the domain
\* leaves the reference variable in
XrefEquation(n) ==
    /\ Idle
    /\ tree[n].kind \in BaseIdKinds
    /\ query' = n
    /\ \E domain \in {entities(tree, envs, node_env, n, EnvRef(node_env[n]))} :
          result' = [domain |-> domain, binding |-> binding_state(domain)]
    /\ pc' = "xref_equation"
    /\ UNCHANGED <<tree, matchVars, envVars, evalVars>>

Next ==
    \/ BuildNode
    \/ \E n \in 1..Len(tree) : EnvElements(n)
    \/ \E n \in 1..Len(tree) : XrefEquation(n)

Spec == Init /\ [][Next]_vars

(***************************************************************************)
(* SpecDefEnv: the environment build pass over a program of types, then    *)
(* the queries of candidates, designated_env and defining_env.             *)
(***************************************************************************)
InitDefEnv ==
    /\ tree \in TypePrograms
    /\ envs = InitialEnvs /\ node_env = <<>> /\ built = 0
    /\ memo = [d \in Decls(tree) |-> NotComputed]
    /\ stack = <<>> /\ job = NoJob
    /\ query = 0 /\ result = "none"
    /\ pc = "build"
    /\ subp_params = <<>> /\ call_params = <<>>
    /\ match_list = "none" /\ accepted = "none"

\* BasicDecl.defining_env demanded on declaration d
DefiningEnv(d) ==
    /\ Idle
    /\ d \in Decls(tree)
    /\ query' = d
    /\ job' = Job("defining_env", d, <<EnvElement(d, no_md)>>, EmptyEnv)
    /\ pc' = "eval"
    /\ UNCHANGED <<tree, result, matchVars, envVars, memo, stack>>

\* BaseId.designated_env demanded on identifier n (ast.py 1025-1029): the
\* defining_env of each of its entities that is a BasicDecl, grouped
DesignatedEnv(n) ==
    /\ Idle
    /\ tree[n].kind \in BaseIdKinds
    /\ query' = n
    /\ job' = Job("designated_env", n,
                  env_elements(tree, envs, node_env, n, EnvRef(node_env[n])),
                  EmptyEnv)
    /\ pc' = "eval"
    /\ UNCHANGED <<tree, result, matchVars, envVars, memo, stack>>

\* the evaluation enters the defining_env of d
Enter(d) ==
    /\ Len(stack) < MaxDepth
    /\ memo' = [memo EXCEPT ![d] = InProgress]
    /\ stack' = Append(stack, d)

\* the defining_env of d, innermost under evaluation, returns cell
Return(d, cell) ==
    /\ memo' = [memo EXCEPT ![d] = cell]
    /\ stack' = SubSeq(stack, 1, Len(stack) - 1)

\* the defining_env of d, innermost under evaluation and reading that of
\* dep, makes one step: it returns, or enters the defining_env of dep
FrameStepOn(d, dep) ==
    IF dep = Null
    THEN Return(d, Computed(defining_env_value(tree, envs, node_env, d,
                                               EmptyEnv)))
    ELSE IF dep = PropertyError THEN Return(d, Failed)
    ELSE IF in_progress(memo, dep)
    THEN Return(d, Computed(defining_env_value(tree, envs, node_env, d,
                                               EmptyEnv)))
    ELSE IF memo[dep].state = "done"
    THEN Return(d, Computed(defining_env_value(tree, envs, node_env, d,
                                               memo[dep].value)))
    ELSE IF memo[dep].state = "error" THEN Return(d, Failed)
    ELSE Enter(dep)

FrameStep ==
    /\ \E dep \in {defining_env_dep(tree, envs, node_env, stack[Len(stack)])} :
          FrameStepOn(stack[Len(stack)], dep)
    /\ UNCHANGED <<pc, job, result>>

\* no defining_env is under evaluation: the query takes its next element,
\* or returns
JobStep ==
    IF job.items = <<>>
    THEN /\ result' = job.acc
         /\ pc' = job.op
         /\ job' = NoJob
         /\ UNCHANGED <<memo, stack>>
    ELSE LET d == Head(job.items).el
         IN  IF tree[d].kind \notin BasicDeclKinds
             THEN /\ job' = [job EXCEPT !.items = Tail(@)]
                  /\ UNCHANGED <<pc, result, memo, stack>>
             ELSE IF memo[d].state = "done"
             THEN /\ job' = [job EXCEPT !.items = Tail(@),
                                        !.acc = @ \o memo[d].value]
                  /\ UNCHANGED <<pc, result, memo, stack>>
             ELSE IF memo[d].state = "error"
             THEN /\ result' = FailedEnv
                  /\ pc' = "failed"
                  /\ job' = NoJob
                  /\ UNCHANGED <<memo, stack>>
             ELSE /\ Enter(d)
                  /\ UNCHANGED <<pc, job, result>>

\* one step of the evaluation of the query in progress
EvalStep ==
    /\ pc = "eval"
    /\ IF stack # <<>> THEN FrameStep ELSE JobStep
    /\ UNCHANGED <<tree, query, matchVars, envVars>>

NextDefEnv ==
    \/ BuildNode
    \/ \E n \in 1..Len(tree) : EnvElements(n)
    \/ \E d \in 1..Len(tree) : DefiningEnv(d)
    \/ \E n \in 1..Len(tree) : DesignatedEnv(n)
    \/ EvalStep

SpecDefEnv == InitDefEnv /\ [][NextDefEnv]_vars

\* an evaluation in progress is not left pending
FairSpecDefEnv == SpecDefEnv /\ WF_vars(EvalStep)

(***************************************************************************)
(* SpecFilter: the filter of BaseId.env_elements applied to every list of  *)
(* items over a pool of declarations, for every identifier of a statement. *)
(***************************************************************************)
MaxItems == 2

\* package Pool: subprograms of several profiles, an array type, objects
\* of an anonymous array type, of a named array type and of an unknown type
PoolTerm ==
    <<Tok("PackageDecl", 9), Id("Pool"), Tok("SubprogramDecl", 1)>>
    \o SubprogramSpecTerm("s0", <<>>)
    \o <<Tok("SubprogramDecl", 1)>>
    \o SubprogramSpecTerm("s1", <<ParameterProfile(<<"x">>, "null")>>)
    \o <<Tok("SubprogramDecl", 1)>>
    \o SubprogramSpecTerm("s1o", <<ParameterProfile(<<"x">>, "expr")>>)
    \o <<Tok("SubprogramBody", 1)>>
    \o SubprogramSpecTerm("s2", <<ParameterProfile(<<"x", "y">>, "null")>>)
    \o <<TokA("FullTypeDecl", 1, "t", NoAttr)>> \o ArrayTypeDefTerm(1)
    \o ObjectDeclTerm("a2", ArrayTypeDefTerm(2))
    \o ObjectDeclTerm("a1", TypeRefTerm(<<Id("t")>>))
    \o ObjectDeclTerm("v", TypeRefTerm(<<Id("u")>>))

\* the statements the identifiers of which are queried
UsageTerms ==
    {BareStatementTerm("x"),
     <<Tok("CallStatement", 1), Tok("Prefix", 2), Id("x"), Id("x")>>,
     <<Tok("CallStatement", 1), Tok("CallExpr", 2), Id("x"), Num>>,
     <<Tok("CallStatement", 1), Tok("CallExpr", 2), Id("x"),
       Tok("ParamList", 1), Tok("ParamAssoc", 2), Id("x"), Num>>,
     <<Tok("CallStatement", 1), Tok("CallExpr", 2), Id("x"),
       Tok("ParamList", 2), Tok("ParamAssoc", 1), Num,
       Tok("ParamAssoc", 2), Id("y"), Num>>}
    \cup {CallStatementTerm("x", n) : n \in 0..MaxActuals}

FilterProgram(usage) ==
    TreeOf(<<Tok("CompilationUnit", 2)>> \o PoolTerm
           \o <<Tok("SubprogramBody", 2)>>
           \o SubprogramSpecTerm("main", <<ParameterProfile(<<"x">>, "null")>>)
           \o usage)

FilterPrograms == {FilterProgram(u) : u \in UsageTerms}

\* the entities of program t: the package Pool, its declarations and the
\* formal of main
PoolEntities(t) ==
    {n \in 1..Len(t) :
        \/ /\ t[n].kind \in BasicDeclKinds
           /\ \E i \in 1..Len(parents(t, n)) :
                 t[parents(t, n)[i]].kind = "PackageDecl"
        \/ /\ t[n].kind = "ParameterProfile"
           /\ \A i \in 1..Len(parents(t, n)) :
                 t[parents(t, n)[i]].kind # "PackageDecl"}

\* the elements a lookup can return: an entity with its metadata, the
\* dottable_subprogram flag being drawn for subprograms and packages
PoolItems(t) ==
    {e \in {EnvElement(el, Metadata(d, FALSE)) :
                el \in PoolEntities(t), d \in BOOLEAN} :
        e.MD.dottable_subprogram =>
            t[e.el].kind \in BasicSubprogramDeclKinds
                             \cup {"SubprogramBody", "PackageDecl"}}

ItemLists(t) == UNION {[1..k -> PoolItems(t)] : k \in 0..MaxItems}

\* the identifiers of the statement of program t
UsageIds(t) ==
    {n \in 1..Len(t) :
        /\ t[n].kind \in BaseIdKinds
        /\ \E i \in 1..Len(parents(t, n)) :
              t[parents(t, n)[i]].kind = "CallStatement"}

InitFilter ==
    /\ tree \in FilterPrograms
    /\ envs = InitialEnvs /\ node_env = <<>> /\ built = 0
    /\ memo = <<>> /\ stack = <<>> /\ job = NoJob
    /\ query = 0 /\ result = "none"
    /\ pc = "build"
    /\ subp_params = <<>> /\ call_params = <<>>
    /\ match_list = "none" /\ accepted = "none"

\* BaseId.env_elements on the identifier n of the statement, once Env.get
\* has returned items (ast.py 1075-1115)
FilterItems(n, items) ==
    /\ pc = "idle"
    /\ query' = n
    /\ job' = Job("filter_items", n, items, <<>>)
    /\ result' = filter_items(tree, envs, node_env, n, items)
    /\ pc' = "filtered"
    /\ UNCHANGED <<tree, matchVars, envVars, memo, stack>>

NextFilter ==
    \/ BuildNode
    \/ \E n \in UsageIds(tree), items \in ItemLists(tree) :
          FilterItems(n, items)

SpecFilter == InitFilter /\ [][NextFilter]_vars

(***************************************************************************)
(* Claims on the filter of BaseId.env_elements.                            *)
(***************************************************************************)
IsSubprogramEntity(t, e) ==
    t[e.el].kind \in BasicSubprogramDeclKinds \cup {"SubprogramBody"}

\* the number of formals without a default of the subprogram entity e
MandatoryOf(t, e) == NbMandatoryFormals(params_of(t, subp_spec_of(t, e.el)))

\* the queried identifier is the head of a call whose suffix is a ParamList
IsCallHead ==
    /\ parent_callexpr(tree, job.node) # Null
    /\ tree[suffix_of(tree, parent_callexpr(tree, job.node))].kind = "ParamList"

\* the number of actuals of the call the queried identifier heads
NbActuals == Len(tree[suffix_of(tree, parent_callexpr(tree, job.node))].kids)

\* C6: when a BaseId is not a call head, env_elements is the lookup result
\* minus every subprogram entity with at least one mandatory formal, except
\* that a dottable_subprogram entity with exactly one mandatory formal is
\* kept; every non-subprogram entity is kept.
C6_BareFilter ==
    (pc = "filtered" /\ parent_callexpr(tree, job.node) = Null) =>
        result = SeqFilter(job.items,
                    {e \in {job.items[i] : i \in 1..Len(job.items)} :
                        ~ /\ IsSubprogramEntity(tree, e)
                          /\ MandatoryOf(tree, e) >= 1
                          /\ ~ (e.MD.dottable_subprogram
                                /\ MandatoryOf(tree, e) = 1)})

\* a bare identifier whose lookup returns the same one-formal subprogram
\* once plain and once dottable: only the dottable element is kept
C6_Witness ==
    /\ pc = "filtered"
    /\ parent_callexpr(tree, job.node) = Null
    /\ Len(job.items) = 2
    /\ job.items[1].el = job.items[2].el
    /\ IsSubprogramEntity(tree, job.items[1])
    /\ MandatoryOf(tree, job.items[1]) = 1
    /\ ~job.items[1].MD.dottable_subprogram
    /\ job.items[2].MD.dottable_subprogram
    /\ result = <<job.items[2]>>

ScenarioPrograms ==
    {E2EProgram(<<ParameterProfile(<<"x">>, "null")>>, q, FALSE, "Foo", 1) :
        q \in BOOLEAN}

\* node n is inside a package body
InPackageBody(t, n) ==
    \E i \in 1..Len(parents(t, n)) : t[parents(t, n)[i]].kind = "PackageBody"

\* C8: in the scenario, after the build pass, the identifier Foo of the call
\* Foo (1) inside the body of P has exactly one filtered candidate, the
\* procedure, which is the only value of its reference variable, and the
\* bare identifier Foo has no filtered candidate.
C8_EndToEnd ==
    (/\ pc = "env_elements"
     /\ tree \in ScenarioPrograms
     /\ tree[query].tok = "Foo"
     /\ InPackageBody(tree, query)) =>
        IF parent_callexpr(tree, query) # Null
        THEN /\ Len(result.filtered) = 1
             /\ tree[result.filtered[1].el].kind = "SubprogramDecl"
             /\ result.ref_var = <<result.filtered[1].el>>
        ELSE result.filtered = <<>>

(***************************************************************************)
(* Claims on the evaluation of defining_env, over SpecDefEnv.              *)
(***************************************************************************)
\* the declaration whose defining_env that of d reads in the program, once
\* its environments are built
Reads(d) == defining_env_dep(tree, envs, node_env, d)

\* d reads its own defining_env, directly or through one other declaration
OnCycle(d) ==
    /\ d \in Decls(tree)
    /\ Reads(d) \in Decls(tree)
    /\ \/ Reads(d) = d
       \/ Reads(Reads(d)) = d

\* d is a subtype whose dependency cycle is made of subtypes only
OnSubtypeCycle(d) ==
    /\ OnCycle(d)
    /\ tree[d].kind = "SubtypeDecl"
    /\ tree[Reads(d)].kind = "SubtypeDecl"

\* no declaration is entered while it is being computed
NoReentry ==
    \A i, j \in 1..Len(stack) : stack[i] = stack[j] => i = j

\* the results of the defining_env queries that went through a cycle
CycleResults ==
    (pc = "defining_env") =>
        /\ OnSubtypeCycle(query) => result = EmptyEnv
        /\ Reads(query) = query =>
              result = defining_env_value(tree, envs, node_env, query,
                                          EmptyEnv)

DesignatesNothing(d) ==
    /\ d \in Decls(tree)
    /\ tree[d].kind \in {"FullTypeDecl", "SubtypeDecl"}
    /\ Reads(d) = PropertyError

\* C10: a query that finds nothing returns an empty value and never
\* signals failure: an undeclared identifier has no candidates, no
\* filtered candidates and an empty designated_env, and the defining_env
\* of a declaration whose type name designates no type or package is
\* answered, with the empty environment.
C10_EmptyResult ==
    /\ pc # "failed"
    /\ (pc = "env_elements" /\ tree[query].tok = "U") =>
          result.items = <<>> /\ result.filtered = <<>>
    /\ (pc = "designated_env" /\ tree[query].tok = "U") => result = EmptyEnv
    /\ (pc = "defining_env" /\ DesignatesNothing(query)) => result = EmptyEnv

\* C10, what holds: the queries on an undeclared identifier are empty
C10_Undeclared ==
    /\ (pc = "env_elements" /\ tree[query].tok = "U") =>
          result.items = <<>> /\ result.filtered = <<>>
    /\ (pc = "designated_env" /\ tree[query].tok = "U") => result = EmptyEnv

\* C10, what fails: whenever a type name designates nothing, the
\* defining_env query on its declaration ends in a failure
C10_Fails ==
    (pc \in {"defining_env", "failed"} /\ DesignatesNothing(query)) =>
        pc = "failed" /\ result = FailedEnv

(***************************************************************************)
(* Claim on a call head whose suffix is not a ParamList, over SpecFilter.  *)
(***************************************************************************)
\* the queried identifier is the head of a call whose suffix is not a
\* ParamList
IsHeadOfNonList ==
    /\ parent_callexpr(tree, job.node) # Null
    /\ tree[suffix_of(tree, parent_callexpr(tree, job.node))].kind # "ParamList"

\* C11: call-style filtering requested for a call head whose CallExpr
\* suffix is not a ParamList is a hard fault: env_elements never completes
\* with a candidate set, narrowed or not, on such an identifier.
C11_StructuralMismatch ==
    (pc # "build" /\ job.op = "filter_items" /\ IsHeadOfNonList) =>
        pc # "filtered"

\* C11, what the code does: the lookup result is returned as it is
C11_ReturnsItems ==
    (pc = "filtered" /\ IsHeadOfNonList) => result = job.items

(***************************************************************************)
(* SpecEnv: the lexical environments on their own.  Environments are       *)
(* created under an existing parent, entities are registered under         *)
(* symbols, and one lookup is then made in an environment, in its orphan   *)
(* or in a group of two.  Here query holds the lookup made: the            *)
(* environment value, the values it was grouped from and the symbol.       *)
(***************************************************************************)
MaxEnvs == 2
MaxRegs == 3

EnvSymbols == {"a", "b"}

\* the number of registrations made so far in E
NbRegs(E) ==
    LET RECURSIVE Sum(_)
        Sum(S) == IF S = {} THEN 0
                  ELSE LET id == CHOOSE x \in S : TRUE
                       IN  Len(E[id].map) + Sum(S \ {id})
    IN  Sum(DOMAIN E)

InitEnv ==
    /\ tree = <<>>
    /\ envs = InitialEnvs /\ node_env = <<>> /\ built = 0
    /\ memo = <<>> /\ stack = <<>> /\ job = NoJob
    /\ query = 0 /\ result = "none"
    /\ pc = "env"
    /\ subp_params = <<>> /\ call_params = <<>>
    /\ match_list = "none" /\ accepted = "none"

\* add_env: a new environment whose parent is the environment p
AddEnv(p) ==
    /\ pc = "env"
    /\ Cardinality(DOMAIN envs) < MaxEnvs
    /\ envs' = envs @@ (Cardinality(DOMAIN envs) :>
                           [parent |-> p, map |-> <<>>])
    /\ UNCHANGED <<tree, query, result, pc, matchVars, node_env, built,
                   evalVars>>

\* add_to_env: the next entity is registered under sym in environment id
AddToEnv(id, sym) ==
    /\ pc = "env"
    /\ built < MaxRegs
    /\ envs' = [envs EXCEPT ![id].map = AddAll(@, <<sym>>, built + 1)]
    /\ built' = built + 1
    /\ UNCHANGED <<tree, query, result, pc, matchVars, node_env, evalVars>>

\* the values of the environments: each one and its orphan
EnvValues ==
    {EnvRef(id) : id \in DOMAIN envs}
    \cup {env_orphan(EnvRef(id)) : id \in DOMAIN envs}

\* ev.get(sym), ev being the group of parts
Get(parts, sym) ==
    /\ pc = "env"
    /\ query' = [env |-> env_group(parts), parts |-> parts, sym |-> sym]
    /\ result' = env_get(envs, env_group(parts), sym)
    /\ pc' = "get"
    /\ UNCHANGED <<tree, matchVars, envVars, evalVars>>

NextEnv ==
    \/ \E p \in DOMAIN envs : AddEnv(p)
    \/ \E id \in DOMAIN envs, sym \in EnvSymbols : AddToEnv(id, sym)
    \/ \E a \in EnvValues, sym \in EnvSymbols : Get(<<a>>, sym)
    \/ \E a, b \in EnvValues, sym \in EnvSymbols : Get(<<a, b>>, sym)

SpecEnv == InitEnv /\ [][NextEnv]_vars

\* the entities registered under sym directly in environment id, in the
\* order of their registration
Registered(id, sym) ==
    LET map == envs[id].map
        at  == {i \in 1..Len(map) : map[i].key = sym}
        nth[k \in 1..Cardinality(at)] ==
            CHOOSE i \in at : Cardinality({j \in at : j <= i}) = k
    IN  [k \in 1..Cardinality(at) |-> EnvElement(map[nth[k]].el, map[nth[k]].MD)]

RECURSIVE Ancestors(_)
\* the environments above id, nearest first
Ancestors(id) ==
    IF envs[id].parent = EmptyId THEN <<>>
    ELSE <<envs[id].parent>> \o Ancestors(envs[id].parent)

\* the positions of result that hold the element e
PositionsOf(e) == {k \in 1..Len(result) : result[k] = e}

\* the lookup made was in the environment id itself
IsGetIn(id) == pc = "get" /\ query.parts = <<EnvRef(id)>>

\* the lookup made was in the orphan of the environment id
IsGetInOrphan(id) == pc = "get" /\ query.parts = <<env_orphan(EnvRef(id))>>

\* C12, shadowing: when a symbol is declared in an environment and in one
\* of its ancestors, get from the inner environment returns an inner
\* declaration at position 0, and every outer declaration at a position
\* after all the inner ones; no outer declaration is omitted.
C12_Shadowing ==
    \A id \in DOMAIN envs :
        (IsGetIn(id) /\ Registered(id, query.sym) # <<>>) =>
            /\ result[1] = Registered(id, query.sym)[1]
            /\ \A i \in 1..Len(Ancestors(id)) :
               \A j \in 1..Len(Registered(Ancestors(id)[i], query.sym)) :
                  /\ PositionsOf(Registered(Ancestors(id)[i], query.sym)[j]) # {}
                  /\ \A k \in PositionsOf(
                                Registered(Ancestors(id)[i], query.sym)[j]) :
                        k > Len(Registered(id, query.sym))

\* a symbol registered twice in the inner environment and once in its
\* parent has been looked up from the inner environment
C12_Witness ==
    \E id \in DOMAIN envs :
        /\ IsGetIn(id)
        /\ Len(Registered(id, query.sym)) = 2
        /\ Ancestors(id) # <<>>
        /\ Len(Registered(Ancestors(id)[1], query.sym)) = 1
        /\ Len(result) = 3

\* C13, orphaning: get in the orphan of an environment returns exactly the
\* entities registered under the symbol directly in it, so that a symbol
\* declared only in an ancestor is not found; the lookup changes no
\* environment, and get in the environment itself still returns its own
\* entities followed by those of its ancestors.
C13_Orphaning ==
    \A id \in DOMAIN envs :
        IsGetInOrphan(id) =>
            /\ result = Registered(id, query.sym)
            /\ env_get(envs, EnvRef(id), query.sym) =
                  Registered(id, query.sym)
                  \o (IF envs[id].parent = EmptyId THEN <<>>
                      ELSE env_get(envs, EnvRef(envs[id].parent), query.sym))

\* a symbol declared only in the parent has been looked up in the orphan
\* of the child, and not found
C13_Witness ==
    \E id \in DOMAIN envs :
        /\ IsGetInOrphan(id)
        /\ Ancestors(id) # <<>>
        /\ Registered(id, query.sym) = <<>>
        /\ Registered(Ancestors(id)[1], query.sym) # <<>>
        /\ result = <<>>

\* C14, grouping: get in group(A, B) is get in A followed by get in B, and
\* get in group(B, A) is the same two lists the other way round.
C14_Grouping ==
    (pc = "get" /\ Len(query.parts) = 2) =>
        /\ result = env_get(envs, query.parts[1], query.sym)
                    \o env_get(envs, query.parts[2], query.sym)
        /\ env_get(envs, env_group(<<query.parts[2], query.parts[1]>>),
                   query.sym)
              = env_get(envs, query.parts[2], query.sym)
                \o env_get(envs, query.parts[1], query.sym)

\* a group of two environments that find different entities under the
\* symbol has been looked up, its result changing with the order
C14_Witness ==
    /\ pc = "get" /\ Len(query.parts) = 2
    /\ env_get(envs, query.parts[1], query.sym) # <<>>
    /\ env_get(envs, query.parts[2], query.sym) # <<>>
    /\ result # env_get(envs, env_group(<<query.parts[2], query.parts[1]>>),
                        query.sym)

(***************************************************************************)
(* Claim on the reference variables, over Spec.                            *)
(***************************************************************************)
\* the declaration nodes of the filtered candidates of the queried
\* identifier
FilteredDecls ==
    LET f == env_elements(tree, envs, node_env, query, EnvRef(node_env[query]))
    IN  [i \in 1..Len(f) |-> f[i].el]

\* C15: xref_equation sets the domain of ref_var to exactly the
\* declaration nodes of the filtered candidates; the variable is bound, to
\* that entity, iff the domain has exactly one element, ambiguous iff it
\* has more than one, failed iff it is empty, and an ambiguous domain is
\* not resolved to one of its candidates.
C15_RefVarDomain ==
    (pc = "xref_equation") =>
        /\ result.domain = FilteredDecls
        /\ (result.binding.state = "bound") <=>
              (Cardinality({FilteredDecls[i] : i \in 1..Len(FilteredDecls)}) = 1)
        /\ (result.binding.state = "bound") =>
              result.binding.entity = FilteredDecls[1]
        /\ (result.binding.state = "ambiguous") <=>
              (Cardinality({FilteredDecls[i] : i \in 1..Len(FilteredDecls)}) > 1)
        /\ (result.binding.state = "ambiguous") =>
              result.binding.entity = Null
        /\ (result.binding.state = "failed") <=> (FilteredDecls = <<>>)
        /\ result.binding.state \in {"bound", "ambiguous", "failed"}

\* an identifier with two candidates has been left ambiguous, the filter
\* having removed a candidate of the lookup
C15_Witness ==
    /\ pc = "xref_equation"
    /\ result.binding.state = "ambiguous"
    /\ Len(result.domain) = 2

\* an identifier whose lookup finds a declaration that the filter removes
\* has a failed reference variable
C15_WitnessFiltered ==
    /\ pc = "xref_equation"
    /\ result.binding.state = "failed"
    /\ env_get(envs, EnvRef(node_env[query]), tree[query].tok) # <<>>

\* an identifier with one candidate is bound to it
C15_WitnessBound ==
    /\ pc = "xref_equation"
    /\ result.binding.state = "bound"

(***************************************************************************)
(* SpecUnits: the environment build pass over compilation units made of    *)
(* three package or subprogram declarations or bodies, the first named P,  *)
(* the others named by simple or dotted names, the third one either        *)
(* following the second or nested in it.                                   *)
(***************************************************************************)
UnitKinds == {"PackageDecl", "PackageBody", "SubprogramDecl", "SubprogramBody"}

\* the name a.b
Dotted(a, b) == <<Tok("Prefix", 2)>> \o a \o b

\* the unit of the given kind and defining name, inner being what a package
\* holds and nb the number of units in it
UnitTerm(kind, name, inner, nb) ==
    IF kind \in PackageKinds
    THEN <<Tok(kind, 1 + nb)>> \o name \o inner
    ELSE <<Tok(kind, 1), Tok("SubprogramSpec", 1)>> \o name

SecondNames == {<<Id("Q")>>, Dotted(<<Id("P")>>, <<Id("Q")>>),
                Dotted(<<Id("U")>>, <<Id("Q")>>)}

ThirdNames == {<<Id("R")>>, Dotted(<<Id("P")>>, <<Id("R")>>),
               Dotted(<<Id("Q")>>, <<Id("R")>>),
               Dotted(Dotted(<<Id("P")>>, <<Id("Q")>>), <<Id("R")>>)}

UnitPrograms ==
    {TreeOf(<<Tok("CompilationUnit", 3)>>
            \o UnitTerm(k1, <<Id("P")>>, <<>>, 0)
            \o UnitTerm(k2, n2, <<>>, 0)
            \o UnitTerm(k3, n3, <<>>, 0)) :
        k1 \in UnitKinds \ {"SubprogramBody"}, k2 \in UnitKinds,
        n2 \in SecondNames, k3 \in UnitKinds, n3 \in ThirdNames}
    \cup
    {TreeOf(<<Tok("CompilationUnit", 2)>>
            \o UnitTerm(k1, <<Id("P")>>, <<>>, 0)
            \o UnitTerm(k2, n2, UnitTerm(k3, n3, <<>>, 0), 1)) :
        k1 \in UnitKinds \ {"SubprogramBody"}, k2 \in PackageKinds,
        n2 \in SecondNames, k3 \in UnitKinds, n3 \in ThirdNames}

InitUnits ==
    /\ tree \in UnitPrograms
    /\ envs = InitialEnvs /\ node_env = <<>> /\ built = 0
    /\ memo = <<>> /\ stack = <<>> /\ job = NoJob
    /\ query = 0 /\ result = "none"
    /\ pc = "build"
    /\ subp_params = <<>> /\ call_params = <<>>
    /\ match_list = "none" /\ accepted = "none"

SpecUnits == InitUnits /\ [][BuildNode]_vars

\* the package the simple name nm resolves to from environment id, EmptyId
\* when it resolves to no package declaration or body
PackageNamed(nm, id) ==
    IF id = EmptyId THEN EmptyId
    ELSE LET found == env_get(envs, EnvRef(id), tree[nm].tok)
         IN  IF found # <<>> /\ tree[found[1].el].kind \in
                                   {"PackageDecl", "PackageBody"}
             THEN found[1].el
             ELSE EmptyId

\* the environment the defining name nm, met in environment cur, makes the
\* scope of its unit: cur for a simple name; for Parent.Child the
\* environment of the package Parent resolves to, Parent being a simple
\* name or itself a dotted name of simple names
ScopeOfUnit(nm, cur) ==
    IF tree[nm].kind # "Prefix" THEN cur
    ELSE IF tree[prefix_of(tree, nm)].kind # "Prefix"
    THEN PackageNamed(prefix_of(tree, nm), cur)
    ELSE PackageNamed(suffix_of(tree, prefix_of(tree, nm)),
                      PackageNamed(prefix_of(tree, prefix_of(tree, nm)), cur))

\* the builder has just carried out the env_spec of the unit n, whose
\* scope is the environment sc
ChildUnitBuilt(n, sc) ==
    /\ node_env'[n] = sc
    /\ envs'[n] = [parent |-> sc, map |-> <<>>]
    /\ \A id \in DOMAIN envs :
          envs'[id] =
             IF id = sc
             THEN [envs[id] EXCEPT !.map =
                     Append(@, [key |-> name_symbol(tree, decl_name_of(tree, n)),
                                el |-> n, MD |-> no_md])]
             ELSE envs[id]

\* C16: the builder registers a package or subprogram declaration or body
\* once, under the last component of its defining name, in the scope of
\* the unit, and parents the unit's new environment on that scope; the
\* scope is the enclosing environment for a simple name, the environment
\* of the package Parent resolves to for Parent.Child, and the empty
\* environment, where nothing is registered, when Parent resolves to no
\* package.
C16_ChildUnits ==
    [][(pc = "build" /\ built' = built + 1
        /\ tree[built + 1].kind \in UnitKinds) =>
            ChildUnitBuilt(built + 1,
                ScopeOfUnit(decl_name_of(tree, built + 1),
                            children_env_id(envs, node_env,
                                            tree[built + 1].parent)))]_vars

\* the units built so far that are named by a dotted name
DottedUnits ==
    {n \in 1..built : /\ tree[n].kind \in UnitKinds
                      /\ tree[decl_name_of(tree, n)].kind = "Prefix"}

\* a unit P.Q.R has been registered in the environment of P.Q, itself
\* registered in that of P, and a unit whose prefix is no package has the
\* empty environment for scope
C16_Witness ==
    /\ built = Len(tree)
    /\ \E n, q \in DottedUnits :
          /\ node_env[n] = q
          /\ node_env[q] \in 1..Len(tree)
          /\ tree[node_env[q]].kind \in PackageKinds
          /\ \E i \in 1..Len(envs[q].map) :
                envs[q].map[i] = [key |-> "R", el |-> n, MD |-> no_md]

\* a unit whose prefix resolves to no package has been built with the
\* empty environment for scope
C16_WitnessEmpty ==
    \E n \in DottedUnits : node_env[n] = EmptyId /\ envs[n].parent = EmptyId

(***************************************************************************)
(* SpecChain: the build pass over a unit that declares a record type T     *)
(* with a component C, a package P holding a package Q holding an object   *)
(* Y, an object X in any of the unit, P and Q, and a statement made of a   *)
(* dotted name; then env_elements and designated_env on the dotted names.  *)
(***************************************************************************)
\* the declaration of the object X where present is TRUE
ObjectX(present) ==
    IF present THEN ObjectDeclTerm("X", TypeRefTerm(<<Id("T")>>)) ELSE <<>>

ChainNames ==
    {Dotted(<<Id("P")>>, <<Id("X")>>),
     Dotted(<<Id("P")>>, <<Id("Y")>>),
     Dotted(<<Id("Q")>>, <<Id("X")>>),
     Dotted(<<Id("U")>>, <<Id("X")>>),
     Dotted(Dotted(<<Id("P")>>, <<Id("Q")>>), <<Id("X")>>),
     Dotted(Dotted(<<Id("P")>>, <<Id("Q")>>), <<Id("Y")>>),
     Dotted(Dotted(<<Id("P")>>, <<Id("X")>>), <<Id("C")>>)}

ChainProgram(inUnit, inP, inQ, name) ==
    TreeOf(<<Tok("CompilationUnit", 3 + BoolToNat(inUnit)),
             TokA("FullTypeDecl", 1, "T", NoAttr), Tok("RecordTypeDef", 1),
             TokA("ComponentDecl", 1, "none", Attr(<<"C">>, "null", 0)),
             Tok("ComponentDef", 1)>>
           \o TypeRefTerm(<<Id("T")>>)
           \o ObjectX(inUnit)
           \o <<Tok("PackageDecl", 2 + BoolToNat(inP)), Id("P")>>
           \o ObjectX(inP)
           \o <<Tok("PackageDecl", 2 + BoolToNat(inQ)), Id("Q")>>
           \o ObjectX(inQ)
           \o ObjectDeclTerm("Y", TypeRefTerm(<<Id("T")>>))
           \o <<Tok("SubprogramBody", 2)>>
           \o SubprogramSpecTerm("main", <<>>)
           \o <<Tok("CallStatement", 1)>> \o name)

ChainPrograms ==
    {ChainProgram(u, p, q, name) :
        u \in BOOLEAN, p \in BOOLEAN, q \in BOOLEAN, name \in ChainNames}

InitChain ==
    /\ tree \in ChainPrograms
    /\ envs = InitialEnvs /\ node_env = <<>> /\ built = 0
    /\ memo = <<>> /\ stack = <<>> /\ job = NoJob
    /\ query = 0 /\ result = "none"
    /\ pc = "build"
    /\ subp_params = <<>> /\ call_params = <<>>
    /\ match_list = "none" /\ accepted = "none"

\* Prefix.env_elements on the dotted name n (ast.py 1375-1377)
PrefixEnvElements(n) ==
    /\ Idle
    /\ tree[n].kind = "Prefix"
    /\ query' = n
    /\ result' = env_elements(tree, envs, node_env, n, EnvRef(node_env[n]))
    /\ pc' = "prefix_env_elements"
    /\ UNCHANGED <<tree, matchVars, envVars, evalVars>>

\* Prefix.designated_env on the dotted name n (ast.py 1359-1361)
PrefixDesignatedEnv(n) ==
    /\ Idle
    /\ tree[n].kind = "Prefix"
    /\ query' = n
    /\ result' = designated_env(tree, envs, node_env, n, EnvRef(node_env[n]))
    /\ pc' = "prefix_designated_env"
    /\ UNCHANGED <<tree, matchVars, envVars, evalVars>>

NextChain ==
    \/ BuildNode
    \/ \E n \in 1..Len(tree) : PrefixEnvElements(n)
    \/ \E n \in 1..Len(tree) : PrefixDesignatedEnv(n)

SpecChain == InitChain /\ [][NextChain]_vars

\* the designated_env of the prefix of the dotted name queried
PrefixEnv ==
    designated_env(tree, envs, node_env, prefix_of(tree, query),
                   EnvRef(node_env[query]))

\* the filtered candidates of the suffix of the dotted name queried, its
\* symbol being looked up in the environment env
SuffixCandidatesIn(env) ==
    filter_items(tree, envs, node_env, suffix_of(tree, query),
                 env_get(envs, env, tree[suffix_of(tree, query)].tok))

\* the designated_env of the suffix of the dotted name queried, its symbol
\* being looked up in the environment env: the group of the defining_env
\* of its candidates
SuffixEnvIn(env) ==
    group_defining_envs(tree, envs, node_env,
        [i \in 1..Len(SuffixCandidatesIn(env)) |-> SuffixCandidatesIn(env)[i].el],
        BasicDeclKinds)

\* the candidates of a dotted name are those of its suffix looked up in
\* the designated_env of its prefix
ChainCandidates ==
    (pc = "prefix_env_elements") => result = SuffixCandidatesIn(PrefixEnv)

\* C17 as stated: the candidates of Prefix.Suffix are the suffix's
\* filtered candidates with the prefix's designated_env as lookup scope,
\* and its designated_env is the group of the prefix's designated_env and
\* of the suffix's designated_env evaluated in that scope.
C17_ChainGrouped ==
    /\ ChainCandidates
    /\ (pc = "prefix_designated_env") =>
          result = env_group(<<PrefixEnv, SuffixEnvIn(PrefixEnv)>>)

\* C17, amended: the candidates of Prefix.Suffix are the suffix's filtered
\* candidates with the prefix's designated_env as lookup scope, and its
\* designated_env is the suffix's designated_env evaluated in that scope,
\* the prefix's designated_env not being a member of it; the queries
\* change neither the tree nor any environment.
C17_Chain ==
    /\ [](ChainCandidates)
    /\ []((pc = "prefix_designated_env") => result = SuffixEnvIn(PrefixEnv))
    /\ [][pc # "build" => UNCHANGED <<tree, envs, node_env>>]_vars

\* the designated_env of P.Q has been computed, X being declared in P and
\* not in Q: it is the environment of Q alone, where X is not found
C17_Witness ==
    /\ pc = "prefix_designated_env"
    /\ PrefixEnv # EmptyEnv
    /\ result # EmptyEnv
    /\ result # env_group(<<PrefixEnv, result>>)
    /\ env_get(envs, PrefixEnv, "X") # <<>>
    /\ env_get(envs, result, "X") = <<>>

\* the candidates of P.Q.Y: the object Y of Q
C17_WitnessCandidates ==
    /\ pc = "prefix_env_elements"
    /\ tree[prefix_of(tree, query)].kind = "Prefix"
    /\ Len(result) = 1
    /\ tree[result[1].el].kind = "ObjectDecl"

(***************************************************************************)
(* SpecDecls: the build pass over a package that declares objects, a       *)
(* record type with discriminants and components, a subtype and a          *)
(* subprogram with formals, each declaration listing up to MaxIds          *)
(* identifiers.                                                            *)
(***************************************************************************)
MaxIds == 2

IdLists == UNION {[1..k -> {"a", "b"}] : k \in 1..MaxIds}

\* a node of the given kind that lists the identifiers ids
IdsTerm(kind, n, ids) == TokA(kind, n, "none", Attr(ids, "null", 0))

DeclsProgram(ids1, ids2) ==
    TreeOf(<<Tok("CompilationUnit", 1), Tok("PackageDecl", 5), Id("P"),
             IdsTerm("ObjectDecl", 1, ids1)>>
           \o TypeRefTerm(<<Id("T")>>)
           \o <<TokA("FullTypeDecl", 2, "T", NoAttr),
                Tok("TypeDiscriminant", 1),
                IdsTerm("DiscriminantSpec", 1, ids2)>>
           \o TypeRefTerm(<<Id("T")>>)
           \o <<Tok("RecordTypeDef", 1),
                IdsTerm("ComponentDecl", 1, ids1), Tok("ComponentDef", 1)>>
           \o TypeRefTerm(<<Id("T")>>)
           \o <<TokA("SubtypeDecl", 1, "S", NoAttr)>>
           \o TypeRefTerm(<<Id("T")>>)
           \o <<Tok("SubprogramDecl", 1), Tok("SubprogramSpec", 2), Id("F"),
                IdsTerm("ParameterProfile", 0, ids2)>>)

DeclsPrograms == {DeclsProgram(ids1, ids2) : ids1 \in IdLists, ids2 \in IdLists}

InitDecls ==
    /\ tree \in DeclsPrograms
    /\ envs = InitialEnvs /\ node_env = <<>> /\ built = 0
    /\ memo = <<>> /\ stack = <<>> /\ job = NoJob
    /\ query = 0 /\ result = "none"
    /\ pc = "build"
    /\ subp_params = <<>> /\ call_params = <<>>
    /\ match_list = "none" /\ accepted = "none"

SpecDecls == InitDecls /\ [][BuildNode]_vars

IdsKinds == {"ObjectDecl", "ComponentDecl", "ParameterProfile",
             "DiscriminantSpec"}

\* the environment in scope at node n, about to be built: the one its
\* parent opened, else the one its parent lives in
EnvInScope(n) ==
    IF tree[n].parent \in DOMAIN envs THEN tree[n].parent
    ELSE node_env[tree[n].parent]

\* the builder has just registered node n under each symbol of keys, in
\* order, in the environment in scope at n, and nowhere else
RegisteredInScope(n, keys) ==
    /\ node_env'[n] = EnvInScope(n)
    /\ \A id \in DOMAIN envs :
          envs'[id] =
             IF id = EnvInScope(n)
             THEN [envs[id] EXCEPT !.map =
                     @ \o [i \in 1..Len(keys) |->
                              [key |-> keys[i], el |-> n, MD |-> no_md]]]
             ELSE envs[id]

\* C18: a declaration that lists several identifiers is registered once
\* under the symbol of each, in list order, in the environment in scope at
\* its node, and opens no environment; a type declaration registers its
\* name in the enclosing environment and opens a new, empty environment
\* under it, in which it is not registered.
C18_MultipleIds ==
    /\ [][(pc = "build" /\ built' = built + 1
           /\ tree[built + 1].kind \in IdsKinds) =>
              /\ RegisteredInScope(built + 1, tree[built + 1].attr.ids)
              /\ DOMAIN envs' = DOMAIN envs]_vars
    /\ [][(pc = "build" /\ built' = built + 1
           /\ tree[built + 1].kind \in TypeDeclKinds) =>
              /\ RegisteredInScope(built + 1, <<tree[built + 1].tok>>)
              /\ DOMAIN envs' = DOMAIN envs \cup {built + 1}
              /\ envs'[built + 1] = [parent |-> EnvInScope(built + 1),
                                     map |-> <<>>]]_vars
    /\ [](\A n \in DOMAIN envs :
            (n # RootId /\ tree[n].kind \in TypeDeclKinds) =>
                \A i \in 1..Len(envs[n].map) : envs[n].map[i].el # n)

\* the whole package is built: the component declaration of two
\* identifiers stands twice in the environment of the type, which holds
\* the discriminants before it and not the type itself
C18_Witness ==
    /\ built = Len(tree)
    /\ \E n \in 1..Len(tree), ty \in DOMAIN envs :
          /\ tree[n].kind = "ComponentDecl"
          /\ Len(tree[n].attr.ids) = 2
          /\ node_env[n] = ty
          /\ tree[ty].kind = "FullTypeDecl"
          /\ \E i \in 1..Len(envs[ty].map) - 1 :
                /\ envs[ty].map[i] =
                      [key |-> tree[n].attr.ids[1], el |-> n, MD |-> no_md]
                /\ envs[ty].map[i + 1] =
                      [key |-> tree[n].attr.ids[2], el |-> n, MD |-> no_md]
                /\ i > 1
(***************************************************************************)
(* Array dimensions.  NdimsPrograms is a family of packages P declaring    *)
(* an array type A of 1..MaxDims indices, an incomplete type I, a private  *)
(* type V, a derived type D, a subtype S, a record R with a component c,   *)
(* objects x (of a named type), y (of an anonymous array type) and z (of   *)
(* an access type), and a subprogram F.  The names of the parent of D, of  *)
(* the type of S and of the type of c and x vary: a type of the package,   *)
(* the qualified P.A, the undeclared U, U.A, and entities that are not     *)
(* types.                                                                  *)
(***************************************************************************)
MaxDims == 2

DerivedFrom == {<<Id("A")>>, <<Id("R")>>, Dotted(<<Id("P")>>, <<Id("A")>>),
                <<Id("U")>>}

SubtypeOf == {<<Id("A")>>, <<Id("D")>>, Dotted(<<Id("U")>>, <<Id("A")>>)}

ObjectOf ==
    {<<Id(s)>> : s \in {"A", "D", "S", "R", "I", "V", "U", "F", "x"}}
    \cup {Dotted(<<Id("P")>>, <<Id("A")>>), Dotted(<<Id("U")>>, <<Id("A")>>),
          Dotted(<<Id("R")>>, <<Id("A")>>)}

NdimsProgram(k, dname, sname, oname) ==
    TreeOf(<<Tok("CompilationUnit", 1), Tok("PackageDecl", 11), Id("P"),
             TokA("FullTypeDecl", 1, "A", NoAttr)>>
           \o ArrayTypeDefTerm(k)
           \o <<TokA("FullTypeDecl", 1, "I", NoAttr),
                Tok("IncompleteTypeDef", 0),
                TokA("FullTypeDecl", 1, "V", NoAttr),
                Tok("PrivateTypeDef", 0),
                TokA("FullTypeDecl", 1, "D", NoAttr),
                Tok("DerivedTypeDef", 1)>>
           \o TypeRefTerm(dname)
           \o <<TokA("SubtypeDecl", 1, "S", NoAttr)>>
           \o TypeRefTerm(sname)
           \o <<TokA("FullTypeDecl", 1, "R", NoAttr),
                Tok("RecordTypeDef", 1),
                IdsTerm("ComponentDecl", 1, <<"c">>), Tok("ComponentDef", 1)>>
           \o TypeRefTerm(oname)
           \o ObjectDeclTerm("x", TypeRefTerm(oname))
           \o ObjectDeclTerm("y", ArrayTypeDefTerm(k))
           \o ObjectDeclTerm("z", <<Tok("TypeExpression", 1),
                                    Tok("TypeAccessExpression", 0)>>)
           \o <<Tok("SubprogramDecl", 1), Tok("SubprogramSpec", 1), Id("F")>>)

NdimsPrograms ==
    {NdimsProgram(k, d, s, o) :
        k \in 1..MaxDims, d \in DerivedFrom, s \in SubtypeOf, o \in ObjectOf}

InitNdims ==
    /\ tree \in NdimsPrograms
    /\ envs = InitialEnvs /\ node_env = <<>> /\ built = 0
    /\ memo = <<>> /\ stack = <<>> /\ job = NoJob
    /\ query = 0 /\ result = "none"
    /\ pc = "build"
    /\ subp_params = <<>> /\ call_params = <<>>
    /\ match_list = "none" /\ accepted = "none"

\* the nodes array_ndims is defined on: BasicDecl (ast.py 118), TypeDef
\* (152), TypeExpression (460) and TypeExprVariant (469)
TypeDefKinds == {"ArrayTypeDef", "DerivedTypeDef", "IncompleteTypeDef",
                 "PrivateTypeDef", "RecordTypeDef"}

TypeExprKinds == {"TypeExpression", "TypeRef", "TypeAccessExpression"}

\* array_ndims and is_array called on the node n (ast.py 118-125): a
\* Property_Error raised on the way ends the query
ArrayNdims(n) ==
    /\ Idle
    /\ tree[n].kind \in BasicDeclKinds \cup TypeDefKinds \cup TypeExprKinds
    /\ query' = n
    /\ \E v \in {array_ndims(tree, envs, node_env, n)} :
          /\ result' = [ndims |-> v, is_array |-> v > 0]
          /\ pc' = IF v = PropertyError THEN "array_ndims_failed"
                   ELSE "array_ndims"
    /\ UNCHANGED <<tree, matchVars, envVars, evalVars>>

NextNdims ==
    \/ BuildNode
    \/ \E n \in 1..Len(tree) : ArrayNdims(n)

SpecNdims == InitNdims /\ [][NextNdims]_vars

\* the type declaration the name nm designates, going by its symbol: the
\* types of these programs are declared once each, in package P, where
\* every name stands; Null when nm names no type
NameDesignates(nm) ==
    LET sym == IF tree[nm].kind = "Identifier" THEN tree[nm].tok
               ELSE IF tree[nm].kind = "Prefix"
                       /\ tree[prefix_of(tree, nm)].tok = "P"
                    THEN tree[suffix_of(tree, nm)].tok
                    ELSE "none"
        ds  == {d \in 1..Len(tree) :
                   tree[d].kind \in TypeDeclKinds /\ tree[d].tok = sym}
    IN  IF ds = {} THEN Null ELSE Only(ds)

RECURSIVE ArrayTypeOf(_)
\* the array type definition the entity n designates, Null when it
\* designates none
ArrayTypeOf(n) ==
    CASE tree[n].kind = "ArrayTypeDef" -> n
      [] tree[n].kind = "FullTypeDecl" -> ArrayTypeOf(type_def_of(tree, n))
      [] tree[n].kind \in {"DerivedTypeDef", "SubtypeDecl", "ObjectDecl",
                           "TypeExpression"} ->
            ArrayTypeOf(tree[n].kids[1])
      [] tree[n].kind = "ComponentDecl" ->
            ArrayTypeOf(tree[tree[n].kids[1]].kids[1])
      [] tree[n].kind = "TypeRef" ->
            LET d == NameDesignates(name_of(tree, n))
            IN  IF d = Null THEN Null ELSE ArrayTypeOf(d)
      [] OTHER -> Null

\* the number of index entries of the array type n designates, 0 when it
\* designates none
ExpectedNdims(n) ==
    LET a == ArrayTypeOf(n) IN IF a = Null THEN 0 ELSE tree[a].attr.ndims

\* the TypeRef r has a dotted name whose prefix names no package
UnresolvedPrefix(r) ==
    /\ tree[r].kind = "TypeRef"
    /\ tree[name_of(tree, r)].kind = "Prefix"
    /\ tree[prefix_of(tree, name_of(tree, r))].tok # "P"

\* C19: array_ndims is always a non-negative integer and is_array holds
\* iff it is greater than 0: it is the number of index entries of an array
\* type definition, goes unchanged through object, component, subtype and
\* derived-type declarations to the array type they designate, and is 0
\* for every other entity, for incomplete and private type definitions,
\* for access expressions and for a TypeRef whose name designates no type.
C19_ArrayNdims ==
    pc \in {"array_ndims", "array_ndims_failed"} =>
        /\ pc = "array_ndims"
        /\ result.ndims \in Nat
        /\ result.is_array <=> result.ndims > 0
        /\ result.ndims = ExpectedNdims(query)

\* what the code computes: the query that ends ends as C19 says, and a
\* query fails only where a TypeRef has a dotted name whose prefix names
\* no package, which no program without such a TypeRef does
C19_ExceptUnresolvedPrefix ==
    /\ pc = "array_ndims" =>
          /\ result.ndims \in Nat
          /\ result.is_array <=> result.ndims > 0
          /\ result.ndims = ExpectedNdims(query)
    /\ pc = "array_ndims_failed" =>
          /\ \E r \in 1..Len(tree) : UnresolvedPrefix(r)
          /\ ExpectedNdims(query) = 0

\* the object x of subtype S of the derived type D of the array type A has
\* the MaxDims dimensions of A
C19_Witness ==
    /\ pc = "array_ndims"
    /\ tree[query].kind = "ObjectDecl"
    /\ tree[tree[query].kids[1]].kind = "TypeExpression"
    /\ tree[tree[tree[query].kids[1]].kids[1]].kind = "TypeRef"
    /\ tree[name_of(tree, tree[tree[query].kids[1]].kids[1])].tok = "S"
    /\ ArrayTypeOf(query) # Null
    /\ tree[tree[ArrayTypeOf(query)].parent].tok = "A"
    /\ result = [ndims |-> MaxDims, is_array |-> TRUE]

\* array_ndims of the object x : U.A fails
C19_WitnessFailed ==
    /\ pc = "array_ndims_failed"
    /\ tree[query].kind = "ObjectDecl"
(***************************************************************************)
(* SubprogramSpec.match_param_assoc (ast.py 1257-1278), applied to each    *)
(* association of every list of SpecMatch's inputs.                        *)
(***************************************************************************)
match_param_assoc(params, pa) ==
    /\ nb_max_params(params) > 0
    /\ \/ ~(pa.designator = NoDesignator)
       \/ /\ pa.designator.kind = "Identifier"
          /\ LET tpl == typed_param_list(params)
             IN  \E k \in 1..Len(tpl) : matches(tpl[k].name, pa.designator.tok)

\* a call of SubprogramSpec.match_param_assoc on the i-th association
MatchParamAssoc(i) ==
    /\ pc = "start"
    /\ i \in 1..Len(call_params)
    /\ query' = i
    /\ result' = match_param_assoc(subp_params, call_params[i])
    /\ pc' = "assoc"
    /\ UNCHANGED <<subp_params, call_params, match_list, accepted, tree,
                   envVars, evalVars>>

NextAssoc == \E i \in 1..MaxActuals : MatchParamAssoc(i)

SpecAssoc == InitMatch /\ [][NextAssoc]_vars

\* the names of the formals of the specification
FormalNames ==
    UNION {{subp_params[j].ids[k] : k \in 1..Len(subp_params[j].ids)} :
              j \in 1..Len(subp_params)}

\* C20: match_param_assoc returns true iff the specification has at least
\* one formal and either the association has no designator, or its
\* designator is an Identifier whose name is the name of some formal; an
\* association whose designator names no formal does not match.
C20_MatchParamAssoc ==
    pc = "assoc" =>
        (result <=>
            /\ FormalNames # {}
            /\ \/ call_params[query].designator = NoDesignator
               \/ /\ call_params[query].designator.kind = "Identifier"
                  /\ call_params[query].designator.tok \in FormalNames)

\* what the code computes: true iff the specification has a formal and
\* the association has a designator, whatever it names
C20_DesignatedMatches ==
    pc = "assoc" =>
        (result <=> (FormalNames # {}
                     /\ call_params[query].designator # NoDesignator))

\* an association with no designator is refused by a specification that
\* has formals
C20_PositionalRefused ==
    /\ pc = "assoc"
    /\ FormalNames # {}
    /\ call_params[query].designator = NoDesignator
    /\ result = FALSE

\* an association whose designator names no formal is accepted
C20_UnknownAccepted ==
    /\ pc = "assoc"
    /\ call_params[query].designator.kind = "Identifier"
    /\ call_params[query].designator.tok \notin FormalNames
    /\ result = TRUE
(***************************************************************************)
(* SpecQualified: the build pass over a unit that declares a record type T *)
(* with a component C, a type D derived from T (or from the undeclared U)  *)
(* with a record extension, a type E derived from D, a package P holding   *)
(* an object Y, and an object or component X in any of the unit, T, D and  *)
(* P; then env_elements on the dotted name of a statement.                 *)
(***************************************************************************)
\* the declaration of the component nm where present is TRUE
ComponentTerm(nm, present) ==
    IF present
    THEN <<IdsTerm("ComponentDecl", 1, <<nm>>), Tok("ComponentDef", 1)>>
         \o TypeRefTerm(<<Id("T")>>)
    ELSE <<>>

QualifiedNames ==
    {Dotted(<<Id(p)>>, <<Id(x)>>) : p \in {"T", "D", "E", "P"},
                                     x \in {"X", "C", "Y"}}

QualifiedProgram(inUnit, inT, inD, inP, parent, name) ==
    TreeOf(<<Tok("CompilationUnit", 5 + BoolToNat(inUnit))>>
           \o ObjectX(inUnit)
           \o <<TokA("FullTypeDecl", 1, "T", NoAttr),
                Tok("RecordTypeDef", 1 + BoolToNat(inT))>>
           \o ComponentTerm("C", TRUE)
           \o ComponentTerm("X", inT)
           \o <<TokA("FullTypeDecl", 1, "D", NoAttr),
                Tok("DerivedTypeDef", 1 + BoolToNat(inD))>>
           \o TypeRefTerm(<<Id(parent)>>)
           \o (IF inD THEN <<Tok("RecordDef", 1)>> ELSE <<>>)
           \o ComponentTerm("X", inD)
           \o <<TokA("FullTypeDecl", 1, "E", NoAttr),
                Tok("DerivedTypeDef", 1)>>
           \o TypeRefTerm(<<Id("D")>>)
           \o <<Tok("PackageDecl", 2 + BoolToNat(inP)), Id("P")>>
           \o ObjectX(inP)
           \o ObjectDeclTerm("Y", TypeRefTerm(<<Id("T")>>))
           \o <<Tok("SubprogramBody", 2)>>
           \o SubprogramSpecTerm("main", <<>>)
           \o <<Tok("CallStatement", 1)>> \o name)

QualifiedPrograms ==
    {QualifiedProgram(u, t, d, p, parent, name) :
        u \in BOOLEAN, t \in BOOLEAN, d \in BOOLEAN, p \in BOOLEAN,
        parent \in {"T", "U"}, name \in QualifiedNames}

InitQualified ==
    /\ tree \in QualifiedPrograms
    /\ envs = InitialEnvs /\ node_env = <<>> /\ built = 0
    /\ memo = <<>> /\ stack = <<>> /\ job = NoJob
    /\ query = 0 /\ result = "none"
    /\ pc = "build"
    /\ subp_params = <<>> /\ call_params = <<>>
    /\ match_list = "none" /\ accepted = "none"

NextQualified ==
    \/ BuildNode
    \/ \E n \in 1..Len(tree) : PrefixEnvElements(n)

SpecQualified == InitQualified /\ [][NextQualified]_vars

\* the declaration of a type or package that bears the symbol sym, these
\* being declared once each, in the unit; Null when there is none
DeclaredAs(sym) ==
    LET ds == {d \in 1..Len(tree) :
                  \/ tree[d].kind = "FullTypeDecl" /\ tree[d].tok = sym
                  \/ /\ tree[d].kind \in PackageKinds
                     /\ tree[decl_name_of(tree, d)].tok = sym}
    IN  IF ds = {} THEN Null ELSE Only(ds)

\* the entities registered under sym directly in the environment d opens
RegisteredDirectly(d, sym) ==
    {envs[d].map[i].el :
        i \in {j \in 1..Len(envs[d].map) : envs[d].map[j].key = sym}}

IsDerived(d) ==
    tree[d].kind = "FullTypeDecl"
    /\ tree[type_def_of(tree, d)].kind = "DerivedTypeDef"

\* the declaration the parent type name of the derived type d designates
ParentOf(d) ==
    DeclaredAs(tree[name_of(tree,
        tree[tree[type_def_of(tree, d)].kids[1]].kids[1])].tok)

RECURSIVE QualifiedCandidates(_, _)
\* what d.sym may designate: the entities registered under sym directly in
\* the environment of d and, d being a derived type, what its parent type
\* gives for sym
QualifiedCandidates(d, sym) ==
    IF d = Null THEN {}
    ELSE RegisteredDirectly(d, sym)
         \cup (IF IsDerived(d) THEN QualifiedCandidates(ParentOf(d), sym)
               ELSE {})

\* the candidates the last query returned, none when it failed
Candidates ==
    IF result = FailedElements THEN {}
    ELSE {result[i].el : i \in 1..Len(result)}

\* the last query is env_elements of a dotted name whose prefix is the
\* name of a type or package
QualifiedQuery ==
    /\ pc = "prefix_env_elements"
    /\ tree[prefix_of(tree, query)].kind = "Identifier"
    /\ DeclaredAs(tree[prefix_of(tree, query)].tok) # Null

\* C21: qualified lookups are isolated from the enclosing scope: for a
\* dotted name P.X where P designates a package or a non-derived type,
\* every candidate of X is registered directly in the environment of P,
\* so that an X declared only in an environment enclosing the declaration
\* of P is never a candidate of P.X; for a derived type the only further
\* candidates are those of the defining environment of its parent type.
C21_QualifiedIsolated ==
    QualifiedQuery =>
        /\ Candidates \subseteq
              QualifiedCandidates(DeclaredAs(tree[prefix_of(tree, query)].tok),
                                  tree[suffix_of(tree, query)].tok)
        /\ \A e \in Candidates :
              node_env[e] # node_env[DeclaredAs(tree[prefix_of(tree, query)].tok)]

\* P.X has been looked up with an X in the unit that encloses P and none
\* in P: there is no candidate
C21_Witness ==
    /\ QualifiedQuery
    /\ tree[DeclaredAs(tree[prefix_of(tree, query)].tok)].kind = "PackageDecl"
    /\ tree[suffix_of(tree, query)].tok = "X"
    /\ env_get(envs, EnvRef(node_env[query]), "X") # <<>>
    /\ result = <<>>

\* E.X has been looked up, E derived from D derived from T, X being a
\* component of T and of the extension of D and an object of the unit:
\* the candidates are the two components
C21_WitnessDerived ==
    /\ QualifiedQuery
    /\ tree[prefix_of(tree, query)].tok = "E"
    /\ tree[suffix_of(tree, query)].tok = "X"
    /\ env_get(envs, EnvRef(node_env[query]), "X") # <<>>
    /\ Cardinality(Candidates) = 2
    /\ \A e \in Candidates : tree[e].kind = "ComponentDecl"

=============================================================================
